---- MODULE Spec2Model ----
(***************************************************************************)
(* A model of the appointment-check pipeline of spain_asylum_bot:          *)
(*   - AsylumAppointmentBotRequests (asylum_bot_requests.py), the HTTP     *)
(*     variant that main.py runs: _make_request_with_retry,                *)
(*     check_province_appointments, run_single_check and                   *)
(*     run_continuous_monitoring, and main of main.py;                     *)
(*   - AsylumAppointmentBot (asylum_bot.py, Playwright) and                *)
(*     AsylumAppointmentBotSelenium (asylum_bot_selenium.py), the browser   *)
(*     variants;                                                            *)
(*   - the availability classifiers of the three variants.                 *)
(*                                                                          *)
(* Strings are written in ASCII: a non-ASCII code point of the source is   *)
(* written [XX] with its hexadecimal number, so "Almer[ED]a" is the string *)
(* 'Almeria' (i acute) of asylum_bot.py and "Almer[221A][2260]a" the one  *)
(* that asylum_bot_requests.py line 46 holds.                              *)
(***************************************************************************)
EXTENDS Naturals, Sequences, FiniteSets, TLC

VARIABLES
    variant,   \* which bot class is running: "http", "playwright", "selenium"
    transport, \* the browser, context and driver the bot holds
    call,      \* the activation of _make_request_with_retry (HTTP variant)
    chk,       \* the activation of check_province_appointments
    cyc,       \* the activation of run_single_check
    sent,      \* what the notifier was asked to send in this cycle, in order
    cls,       \* the classifier harness: a page and the outcome of classifying it
    bot,       \* the fields of the bot object that outlive a cycle
    main,      \* the activation of main.py's main and of run_continuous_monitoring
    tg         \* the notifier harness: one call of a send operation

vars == <<variant, transport, call, chk, cyc, sent, cls, bot, main, tg>>

None == "None"          \* Python's None, where the other values are strings
NoValue == <<>>         \* Python's None, where the other values are records
Some(v) == <<v>>
NoAttr == "NoAttr"      \* an attribute the tag does not carry

Min(a, b) == IF a <= b THEN a ELSE b

(***************************************************************************)
(* Bounds of the model.                                                    *)
(***************************************************************************)
\* the largest max_retries a direct caller of _make_request_with_retry passes
MaxRetries == 4
\* the longest page source (in tokens) the classifier harness draws
MaxTextLen == 3
\* the number of cycles of run_continuous_monitoring that are followed
MaxCycles == 2
\* the value cycle_count is let reach; the cycles after the first MaxCycles
\* meet a portal that does not answer
MaxCycleCount == 13
\* the cycles before the portal stops answering, in the runs whose progress
\* is checked
MaxFairCycles == 1
\* the value consecutive_failures is let reach by the cycles a caller runs
MaxFailures == 2

(***************************************************************************)
(* _make_request_with_retry (asylum_bot_requests.py 71-120)                *)
(***************************************************************************)
\* max_retries: int = 3
default_max_retries == 3

\* what one session.request can come to: a response with a status, or an
\* exception of one of the classes the handlers tell apart.  asyncio's
\* TimeoutError (the ClientTimeout(total=60) of the session) is an Exception
\* that is neither of the two aiohttp classes.
Statuses == {200, 399, 400, 404, 499, 500, 503}
Errors == {"ClientConnectorError", "ServerTimeoutError", "Exception"}
\* line 98 is inside the try: `await response.read()` of a response below 400
\* can raise as well (the connection is lost or the total timeout runs out
\* while the body arrives), and the except clauses of the loop receive it
ReadFailures == [status : {200}, error : {"Exception"}]
Outcomes ==
    [status : Statuses, error : {None}] \cup [status : {0}, error : Errors]
        \cup ReadFailures
\* the outcomes the requests of the pipeline are given
PipelineOutcomes ==
    [status : {200, 404, 503}, error : {None}] \cup [status : {0}, error : Errors]
        \cup ReadFailures
OutcomesAt(site) == IF site = "test" THEN Outcomes ELSE PipelineOutcomes
\* a monitoring run that has done its portal_cycles cycles goes on with a
\* portal whose every request times out
PortalDown(m) == m.cycle_count > m.portal_cycles
OutcomesFor(m, site) ==
    IF PortalDown(m) THEN {[status |-> 0, error |-> "ServerTimeoutError"]}
    ELSE OutcomesAt(site)

\* delay = min(2 ** attempt, 6)
BackoffDelayNoCap(attempt) == 2 ^ attempt
BackoffDelay(attempt) == Min(2 ^ attempt, 6)

\* What the body of the loop does with the outcome of the request of
\* iteration `attempt` (0-based): "next" (continue, or fall out of the except
\* clause into the next iteration), "return_none", "return_payload"; "raise"
\* would be an exception leaving the function.
RetryDecisionRetry4xx(o, attempt, max_retries) ==
    IF o.error = None /\ o.status < 400 THEN "return_payload"
    ELSE IF attempt = max_retries - 1 THEN "return_none" ELSE "next"
RetryDecisionTimeoutFatal(o, attempt, max_retries) ==
    IF o.error = "ServerTimeoutError" THEN "return_none"
    ELSE IF o.error = None /\ o.status < 400 THEN "return_payload"
    ELSE IF o.error = None /\ o.status < 500 THEN "return_none"
    ELSE IF attempt = max_retries - 1 THEN "return_none" ELSE "next"
RetryDecisionPropagate(o, attempt, max_retries) ==
    IF o.error = "Exception" THEN "raise"
    ELSE IF o.error = None /\ o.status < 400 THEN "return_payload"
    ELSE IF o.error = None /\ o.status < 500 THEN "return_none"
    ELSE IF attempt = max_retries - 1 THEN "return_none" ELSE "next"
RetryDecisionReadFailureFatal(o, attempt, max_retries) ==
    IF o \in ReadFailures THEN "return_none"
    ELSE IF o.error = None /\ o.status < 400 THEN "return_payload"
    ELSE IF o.error = None /\ o.status < 500 THEN "return_none"
    ELSE IF attempt = max_retries - 1 THEN "return_none" ELSE "next"
RetryDecision(o, attempt, max_retries) ==
    IF o.error = None
    THEN IF o.status >= 500
         THEN IF attempt = max_retries - 1 THEN "return_none" ELSE "next"
         ELSE IF o.status >= 400 THEN "return_none"
         ELSE "return_payload"
    ELSE \* except ClientConnectorError / ServerTimeoutError / Exception
         IF attempt = max_retries - 1 THEN "return_none" ELSE "next"

IdleCall ==
    [pc |-> "idle", site |-> None, max_retries |-> 0, attempt |-> 0,
     sleeps |-> <<>>, outcomes |-> <<>>, result |-> NoValue, raised |-> FALSE]

\* the activation record at entry: for attempt in range(max_retries)
NewCall(site, max_retries) ==
    [IdleCall EXCEPT !.pc = "loop", !.site = site, !.max_retries = max_retries]

\* One iteration of the for loop: the backoff sleep (attempt > 0), the
\* request, and the handling of its outcome.  `body` is what the server
\* sends with a status below 400: [content, url].
LoopIteration(c, o, body) ==
    LET a == c.attempt
        d == RetryDecision(o, a, c.max_retries)
    IN  [c EXCEPT
           !.sleeps = IF a > 0 THEN Append(@, BackoffDelay(a)) ELSE @,
           !.outcomes = Append(@, o),
           !.attempt = IF d = "next" THEN a + 1 ELSE a,
           !.pc = IF d = "next" THEN "loop" ELSE "returned",
           !.raised = (d = "raise"),
           !.result = IF d = "return_payload"
                      THEN Some([content |-> body.content, url |-> body.url,
                                 status |-> o.status])
                      ELSE NoValue]

(***************************************************************************)
(* Text.  A string the code inspects is a sequence of tokens: fragments of *)
(* the phrases the code looks for, in the letter cases a page may use,     *)
(* white space, and (in an HTML source) inline markup.                     *)
(***************************************************************************)
Markup == "<b>"

\* str.lower(), fragment by fragment
LowerTok(t) ==
    CASE t = "No hay " -> "no hay "
      [] t = "NO HAY " -> "no hay "
      [] t = "CITAS DISPONIBLES" -> "citas disponibles"
      [] t = "Citas Libres" -> "citas libres"
      [] t = "No quedan " -> "no quedan "
      [] t = "En este momento " -> "en este momento "
      [] t = "TODAS LAS CITAS EST[C1]N OCUPADAS" -> "todas las citas est[E1]n ocupadas"
      [] t = "CALENDARIO" -> "calendario"
      [] OTHER -> t
Lower(s) == [i \in 1..Len(s) |-> LowerTok(s[i])]

\* `needle in haystack` for str
Contains(haystack, needle) ==
    \E i \in 0..(Len(haystack) - Len(needle)) :
        \A j \in 1..Len(needle) : haystack[i + j] = needle[j]

\* str.strip(): leading and trailing white space removed
IsSpace(t) == t \in {" ", "\n"}
RECURSIVE LStrip(_)
LStrip(s) == IF s # <<>> /\ IsSpace(Head(s)) THEN LStrip(Tail(s)) ELSE s
RECURSIVE RStrip(_)
RStrip(s) ==
    IF s # <<>> /\ IsSpace(s[Len(s)]) THEN RStrip(SubSeq(s, 1, Len(s) - 1)) ELSE s
Strip(s) == RStrip(LStrip(s))

\* BeautifulSoup(...).get_text(): the text of the document, markup left out
RECURSIVE get_text(_)
get_text(src) ==
    IF src = <<>> THEN <<>>
    ELSE IF Head(src) = Markup THEN get_text(Tail(src))
    ELSE <<Head(src)>> \o get_text(Tail(src))

(***************************************************************************)
(* The portal's pages as the HTTP variant parses them.                     *)
(***************************************************************************)
Origin == "https://icp.administracionelectronica.gob.es"
\* self.base_url (asylum_bot_requests.py 49)
base_url == <<Origin, "/", "icpplus/acOpcDirect">>
\* self.provinces (asylum_bot_requests.py 46; asylum_bot.py 34; asylum_bot_selenium.py 39)
provinces ==
    IF variant = "http"
    THEN <<"Almer[221A][2260]a", "C[221A][B0]diz", "Albacete">>
    ELSE <<"Almer[ED]a", "C[E1]diz", "Albacete">>

\* self.user_data (asylum_bot_requests.py 36-43; asylum_bot.py 24-31;
\* asylum_bot_selenium.py 29-36)
user_data_EmptyPhone ==
    [passport_number |-> "191484632", full_name |-> "ALAN DOUGLAS COHEN TELLO",
     birth_year |-> "1986", nationality |-> "Venezuela",
     email |-> "alancohen7@gmail.com", phone |-> ""]
user_data ==
    [passport_number |-> "191484632", full_name |-> "ALAN DOUGLAS COHEN TELLO",
     birth_year |-> "1986", nationality |-> "Venezuela",
     email |-> "alancohen7@gmail.com", phone |-> "692959148"]

\* the object __init__ leaves (asylum_bot_requests.py 20-52): self.session is
\* None until _get_session makes one.  The browser bots have no session.
\* `session` is the state of the ClientSession self.session refers to; `live`
\* counts the ClientSession objects that were made and not closed, whether
\* self.session still refers to them or not.
NewBot ==
    [built |-> TRUE, session |-> None, live |-> 0, user_data |-> user_data,
     provinces |-> provinces, consecutive_failures |-> 0]
\* no bot has been constructed
NoBot ==
    [built |-> FALSE, session |-> None, live |-> 0,
     user_data |-> [n \in {} |-> ""], provinces |-> <<>>,
     consecutive_failures |-> 0]

\* _get_session (asylum_bot_requests.py 54-64), awaited at the entry of
\* _make_request_with_retry
get_session_AlwaysNew(b) ==
    [b EXCEPT !.session = "open", !.live = @ + 1]
get_session(b) ==
    IF b.session = None \/ b.session = "closed"
    THEN [b EXCEPT !.session = "open", !.live = @ + 1] ELSE b

\* _close_session (66-69): `if self.session and not self.session.closed`;
\* self.session keeps referring to the closed session
close_session(b) ==
    IF b.session = "open"
    THEN [b EXCEPT !.session = "closed", !.live = @ - 1] ELSE b

EmptyMap == [n \in {} |-> ""]

\* <option value=...>text</option>
Opt(text, value) == [text |-> text, value |-> value]
\* an <input> or <select> of a form
Tag(tag, name, type, value, options) ==
    [tag |-> tag, name |-> name, type |-> type, value |-> value, options |-> options]

\* option.get('value', ''), input_tag.get('value', '')
AttrOr(v, default) == IF v = NoAttr THEN default ELSE v

\* for option in input_tag.find_all('option'):
\*     if option.text.strip() == province: form_data[name] = ...; break
FirstMatchPrefix(options, province) ==
    LET hits == {i \in 1..Len(options) :
                    Strip(options[i].text) # <<>> /\ Head(Strip(options[i].text)) = province}
    IN  IF hits = {} THEN 0 ELSE CHOOSE i \in hits : \A j \in hits : i <= j
FirstMatch(options, province) ==
    LET hits == {i \in 1..Len(options) : Strip(options[i].text) = <<province>>}
    IN  IF hits = {} THEN 0 ELSE CHOOSE i \in hits : \A j \in hits : i <= j

\* the body of `for input_tag in form.find_all(['input', 'select'])` (151-165)
AddFieldLabel(form_data, t, province) ==
    IF t.name = NoAttr \/ t.name = "" THEN form_data
    ELSE IF t.tag = "select" /\ t.name = "provincia"
    THEN LET k == FirstMatch(t.options, province)
         IN  IF k = 0 THEN form_data
             ELSE (t.name :> province) @@ form_data
    ELSE IF t.type = "hidden" THEN (t.name :> AttrOr(t.value, "")) @@ form_data
    ELSE IF t.type = "submit" THEN form_data
    ELSE (t.name :> AttrOr(t.value, "")) @@ form_data
AddFieldKeepSubmit(form_data, t, province) ==
    IF t.name = NoAttr \/ t.name = "" THEN form_data
    ELSE IF t.tag = "select" /\ t.name = "provincia"
    THEN LET k == FirstMatch(t.options, province)
         IN  IF k = 0 THEN form_data
             ELSE (t.name :> AttrOr(t.options[k].value, "")) @@ form_data
    ELSE (t.name :> AttrOr(t.value, "")) @@ form_data
AddField(form_data, t, province) ==
    IF t.name = NoAttr \/ t.name = "" THEN form_data
    ELSE IF t.tag = "select" /\ t.name = "provincia"
    THEN LET k == FirstMatch(t.options, province)
         IN  IF k = 0 THEN form_data
             ELSE (t.name :> AttrOr(t.options[k].value, "")) @@ form_data
    ELSE IF t.type = "hidden" THEN (t.name :> AttrOr(t.value, "")) @@ form_data
    ELSE IF t.type = "submit" THEN form_data
    ELSE (t.name :> AttrOr(t.value, "")) @@ form_data

RECURSIVE CollectFields(_, _, _)
CollectFields(fields, province, form_data) ==
    IF fields = <<>> THEN form_data
    ELSE CollectFields(Tail(fields), province, AddField(form_data, Head(fields), province))

\* a form without an action attribute
NoAction == <<NoAttr>>
\* action_url = form.get('action', ''); a root-relative one is put on the origin
ResolveAction(action) ==
    LET a == IF action = NoAction THEN <<>> ELSE action
    IN  IF a # <<>> /\ Head(a) = "/" THEN <<Origin>> \o a ELSE a

\* action_url or self.base_url
PostTarget(action_url) == IF action_url = <<>> THEN base_url ELSE action_url

\* a document: the forms it holds (in order), its source as tokens, and the
\* elements the classifiers look for
Page(forms, source, elements) ==
    [forms |-> forms, source |-> source, elements |-> elements]
Form(action, fields) == [action |-> action, fields |-> fields]
\* an element of a rendered or parsed page
Elem(tag, class, type, name, value) ==
    [tag |-> tag, class |-> class, type |-> type, name |-> name, value |-> value]

(***************************************************************************)
(* The availability decision of the HTTP variant                           *)
(* (asylum_bot_requests.py 191-251)                                        *)
(***************************************************************************)
no_appointment_indicators_http ==
    << <<"no hay ", "citas disponibles">>,
       <<"no hay ", "citas libres">>,
       <<"en este momento ", "no hay ", "citas disponibles">>,
       <<"no quedan ", "citas libres">>,
       \* line 203 of the file holds "est", U+221A, U+00B0, "n", not "est[E1]n"
       <<"todas las citas est[221A][B0]n ocupadas">> >>

appointment_indicators ==
    << <<"citas disponibles">>, <<"citas libres">>, <<"seleccione una fecha">>,
       <<"calendario">>, <<"fecha disponible">> >>

AnyIn(indicators, text) ==
    \E k \in 1..Len(indicators) : Contains(text, indicators[k])

\* soup.find_all('table', class_=['calendario', 'calendar'])
calendar_tables(page) ==
    {i \in 1..Len(page.elements) :
        /\ page.elements[i].tag = "table"
        /\ page.elements[i].class \in {"calendario", "calendar"}}

\* soup.find_all(['input', 'select'], attrs={'name': lambda x: x and 'fecha' in x.lower()})
date_inputs(page) ==
    {i \in 1..Len(page.elements) :
        /\ page.elements[i].tag \in {"input", "select"}
        /\ page.elements[i].name \in {"fecha", "txtFecha", "FECHA"}}

\* appointment_info of the HTTP variant: a dict, here a function of its keys
HttpInfo(page, province, response_url) ==
    (IF calendar_tables(page) # {} THEN [calendar_found |-> TRUE] ELSE EmptyMap)
    @@ (IF date_inputs(page) # {} THEN [date_selection_available |-> TRUE] ELSE EmptyMap)
    @@ [province |-> province, timestamp |-> "now", page_url |-> response_url,
        found_via |-> "Async HTTP requests with retry logic",
        status |-> "appointments_detected"]

\* lines 195-251: what check_province_appointments returns for the page
ClassifyHttpMarkupCounts(page, province, response_url) ==
    LET page_text == Lower(get_text(page.source))
    IN  IF AnyIn(no_appointment_indicators_http, page_text) THEN NoValue
        ELSE IF AnyIn(appointment_indicators, page_text)
                \/ calendar_tables(page) # {} \/ date_inputs(page) # {}
        THEN Some(HttpInfo(page, province, response_url))
        ELSE NoValue
ClassifyHttp(page, province, response_url) ==
    LET page_text == Lower(get_text(page.source))
    IN  IF AnyIn(no_appointment_indicators_http, page_text) THEN NoValue
        ELSE IF AnyIn(appointment_indicators, page_text)
        THEN Some(HttpInfo(page, province, response_url))
        ELSE NoValue

(***************************************************************************)
(* What the portal may answer (the inputs of the model).                   *)
(***************************************************************************)
oAlmeria == Opt(<<"Almer[ED]a">>, "5")
oCadiz == Opt(<<"C[E1]diz">>, "11")
oAlbacete == Opt(<<"Albacete">>, "2")
oAlbacetePadded == Opt(<<"\n", " ", "Albacete", " ">>, "2p")
oAlbaceteNoValue == Opt(<<"Albacete">>, NoAttr)
oAlbaceteNorte == Opt(<<"Albacete", " ", "Norte">>, "2n")

OptionLists ==
    { <<>>, <<oAlmeria, oCadiz>>, <<oAlmeria, oAlbacete>>,
      <<oAlbacetePadded, oAlbacete>>, <<oAlbaceteNoValue>>,
      <<oAlmeria, oAlbaceteNorte>> }

HiddenField == Tag("input", "sede", "hidden", "99", <<>>)
SubmitField == Tag("input", "btnAceptar", "submit", "Aceptar", <<>>)
TextField == Tag("input", "txtObs", "text", NoAttr, <<>>)
UnnamedField == Tag("input", NoAttr, "text", "x", <<>>)
ProvinciaSelect(options) == Tag("select", "provincia", NoAttr, NoAttr, options)

FieldLists ==
    { pre \o sel \o <<SubmitField>> :
        pre \in {<<>>, <<HiddenField, UnnamedField>>, <<TextField>>},
        sel \in {<<>>} \cup {<<ProvinciaSelect(ol)>> : ol \in OptionLists} }

FormActions == {NoAction, <<>>, <<"/", "icpplus/citar">>, <<"acCitar">>}

Forms ==
    {Form(a, <<ProvinciaSelect(<<oAlmeria, oAlbacete>>), SubmitField>>) : a \in FormActions}
    \cup {Form(<<"/", "icpplus/citar">>, f) : f \in FieldLists}

\* the documents the GET of the base URL may bring: no form, one form, or
\* two forms of which the first is the province form
OtherForm == Form(<<"/", "buscar">>, <<ProvinciaSelect(<<Opt(<<"Albacete">>, "other")>>)>>)
InitialPages ==
    {Page(<<>>, <<>>, <<>>)}
    \cup {Page(<<f>>, <<>>, <<>>) : f \in Forms}
    \cup {Page(<<f, OtherForm>>, <<>>, <<>>) :
            f \in {Form(NoAction, <<SubmitField>>),
                   Form(<<"acCitar">>, <<ProvinciaSelect(<<oAlbacete>>), SubmitField>>)}}

ServiceSelectionUrl == <<Origin, "/", "icpplus/", "citar?p=4&locale=es">>
ResponseUrls ==
    { ServiceSelectionUrl,
      <<Origin, "/", "icpplus/", "citar?p=4&locale=es", "&x=1">>,
      <<Origin, "/", "icpplus/", "citar?p=4&locale=en">>,
      base_url }

tblCalendario == Elem("table", "calendario", NoAttr, NoAttr, NoAttr)
tblPlain == Elem("table", NoAttr, NoAttr, NoAttr, NoAttr)
divCalendar == Elem("div", "calendar", NoAttr, NoAttr, NoAttr)
radioFecha(v) == Elem("input", NoAttr, "radio", "fecha", v)
selectFecha == Elem("select", NoAttr, NoAttr, "fecha", NoAttr)
textFECHA == Elem("input", NoAttr, "text", "FECHA", NoAttr)
divOficina == Elem("div", "oficina", NoAttr, NoAttr, "Oficina 1")

ElementLists ==
    { <<>>, <<tblCalendario>>, <<tblPlain, divCalendar>>,
      <<radioFecha("2024-05-01"), radioFecha("2024-05-02"), divOficina>>,
      <<selectFecha>>, <<textFECHA>>,
      <<radioFecha("2024-05-02"), radioFecha(""), tblPlain,
        radioFecha("2024-05-01"), radioFecha("2024-05-02")>> }

\* the element lists of the pages the HTTP pipeline meets
HttpElementLists ==
    { <<>>, <<tblCalendario>>, <<tblPlain, divCalendar>>, <<textFECHA>> }

\* the page sources the pipelines meet
PipelineSources ==
    { <<>>, <<"x">>,
      <<"No hay ", "citas disponibles">>,
      <<"x", "NO HAY ", "Citas Libres">>,
      <<"no hay ", Markup, "citas disponibles">>,
      <<"citas disponibles">>,
      <<"seleccione una fecha", "x">>,
      <<"CALENDARIO">> }

ResponsePages ==
    {Page(<<>>, src, el) : src \in PipelineSources, el \in HttpElementLists}

\* what a response with a status below 400 carries, by the request it answers
Bodies(site) ==
    CASE site = "GET" -> [content : InitialPages, url : {base_url}]
      [] site = "POST" -> [content : ResponsePages, url : ResponseUrls]
      [] OTHER -> [content : {Page(<<>>, <<>>, <<>>)}, url : {<<"https://httpbin.org", "/", "get">>}]

NoBody == [content |-> Page(<<>>, <<>>, <<>>), url |-> <<>>]

(***************************************************************************)
(* check_province_appointments of the HTTP variant                         *)
(* (asylum_bot_requests.py 122-258)                                        *)
(***************************************************************************)
IdleChk ==
    [pc |-> "idle", province |-> None, initial |-> NoValue, action_url |-> <<>>,
     form_data |-> EmptyMap, requests |-> <<>>, answers |-> <<>>,
     stages |-> <<>>, result |-> NoValue,
     \* the browser variants: the page (Playwright) or driver (Selenium) of
     \* the check, what was done on it, the document it shows at the
     \* availability step and what the classifier said of it
     ctx |-> "none", log |-> <<>>, doc |-> NoValue, classifier |-> NoValue,
     \* the step of the browser pipeline that returned False or raised
     failed |-> None,
     \* whether the interaction that failed would have succeeded if repeated
     transient |-> FALSE,
     \* the cookies the first request of the check's page carried, named by
     \* the province whose check received them (None: no cookie)
     cookies |-> None]

Request(method, url, data) == [method |-> method, url |-> url, data |-> data]

\* return <value>: the locals are gone, the logs of the check stay until the
\* caller has taken the result
Return(c, value) ==
    [c EXCEPT !.pc = "returned", !.result = value,
              !.action_url = <<>>, !.form_data = EmptyMap]

\* lines 124-128: up to the first await
EnterCheckHttp(province) ==
    [IdleChk EXCEPT !.pc = "get", !.province = province,
                    !.requests = <<Request("GET", base_url, EmptyMap)>>]

\* what the check keeps of a finished _make_request_with_retry: whether it
\* gave a payload, the requests it issued, its last outcome, its sleeps and
\* the URL of the payload
Answer(c) ==
    [ok |-> c.result # NoValue, attempts |-> Len(c.outcomes),
     last |-> IF c.outcomes = <<>> THEN NoValue ELSE Some(c.outcomes[Len(c.outcomes)]),
     sleeps |-> c.sleeps,
     url |-> IF c.result # NoValue THEN c.result[1].url ELSE <<>>]

\* lines 129-178: from the answer of the GET (the finished activation c of
\* _make_request_with_retry) to the POST of the province form.  The value is
\* the check and the activation of _make_request_with_retry afterwards.
after_initial_page_PostsUnresolved(k, c) ==
    LET heard == [k EXCEPT !.answers = Append(@, Answer(c))]
    IN  IF c.raised \/ c.result = NoValue
        THEN [chk |-> Return(heard, NoValue), call |-> IdleCall]
        ELSE
        LET content == c.result[1].content
            seen == [heard EXCEPT !.initial = Some(content)]
        IN  IF content.forms = <<>>
            THEN [chk |-> Return(seen, NoValue), call |-> IdleCall]
            ELSE
            LET form == Head(content.forms)
                action_url == ResolveAction(form.action)
                form_data == CollectFields(form.fields, k.province, EmptyMap)
            IN  [chk |-> [seen EXCEPT
                            !.pc = "post",
                            !.action_url = action_url,
                            !.form_data = form_data,
                            !.requests = Append(@,
                                Request("POST", PostTarget(action_url), form_data))],
                 call |-> NewCall("POST", default_max_retries)]
after_initial_page(k, c) ==
    LET heard == [k EXCEPT !.answers = Append(@, Answer(c))]
    IN  IF c.raised \/ c.result = NoValue
        THEN [chk |-> Return(heard, NoValue), call |-> IdleCall]
        ELSE
        LET content == c.result[1].content
            seen == [heard EXCEPT !.initial = Some(content)]
        IN  IF content.forms = <<>>
            THEN [chk |-> Return(seen, NoValue), call |-> IdleCall]
            ELSE
            LET form == Head(content.forms)
                action_url == ResolveAction(form.action)
                form_data == CollectFields(form.fields, k.province, EmptyMap)
            IN  IF "provincia" \notin DOMAIN form_data
                THEN [chk |-> Return(seen, NoValue), call |-> IdleCall]
                ELSE [chk |-> [seen EXCEPT
                                 !.pc = "post",
                                 !.action_url = action_url,
                                 !.form_data = form_data,
                                 !.requests = Append(@,
                                     Request("POST", PostTarget(action_url), form_data))],
                      call |-> NewCall("POST", default_max_retries)]

\* lines 180-254: from the answer of the POST to the return
after_province_submit_AnyLanding(k, c) ==
    LET heard == [k EXCEPT !.answers = Append(@, Answer(c))]
    IN  IF c.raised \/ c.result = NoValue
        THEN Return(heard, NoValue)
        ELSE Return(
                [heard EXCEPT !.stages = @ \o <<"PROVINCE_SELECTED", "AVAILABILITY_CHECKED">>],
                ClassifyHttp(c.result[1].content, k.province, c.result[1].url))
after_province_submit(k, c) ==
    LET heard == [k EXCEPT !.answers = Append(@, Answer(c))]
    IN  IF c.raised \/ c.result = NoValue
        THEN Return(heard, NoValue)
        ELSE
        LET r == c.result[1]
        IN  IF Contains(r.url, <<"citar?p=4&locale=es">>)
            THEN Return(
                    [heard EXCEPT !.stages = @ \o <<"PROVINCE_SELECTED", "AVAILABILITY_CHECKED">>],
                    ClassifyHttp(r.content, k.province, r.url))
            ELSE Return(heard, NoValue)

(***************************************************************************)
(* The loop of _make_request_with_retry as steps of the bot.  A coroutine  *)
(* that returns resumes its awaiting caller without suspending, so the     *)
(* iteration that returns and the caller's code up to its next await are   *)
(* one step.                                                               *)
(***************************************************************************)
Succeeds(o) == o.error = None /\ o.status < 400
BodiesOf(site, o) == IF Succeeds(o) THEN Bodies(site) ELSE {NoBody}

\* an iteration of `for attempt in range(max_retries)` (lines 75-118) that
\* goes on to the next iteration
RetryAgain ==
    /\ variant = "http"
    /\ call.pc = "loop" /\ call.attempt < call.max_retries
    /\ \E o \in OutcomesFor(main, call.site) :
          LET c == LoopIteration(call, o, NoBody)
          IN  c.pc = "loop" /\ call' = c
    /\ UNCHANGED <<variant, transport, chk, cyc, sent, cls, bot, main, tg>>

\* the loop is over without a return: line 120
RetryLoopEnd ==
    /\ variant = "http"
    /\ call.pc = "loop" /\ call.attempt >= call.max_retries
    /\ call.site = "test"
    /\ call' = [call EXCEPT !.pc = "returned", !.result = NoValue]
    /\ UNCHANGED <<variant, transport, chk, cyc, sent, cls, bot, main, tg>>

\* a caller other than the pipeline (test_async_retry.py 38, 48)
DirectCall ==
    /\ variant = "http"
    /\ call.pc = "idle" /\ cyc.pc = "idle"
    /\ \E m \in 0..MaxRetries : call' = NewCall("test", m)
    /\ bot' = get_session(bot)
    /\ UNCHANGED <<variant, transport, chk, cyc, sent, cls, main, tg>>

\* the iteration that returns to that caller
DirectAnswered ==
    /\ variant = "http"
    /\ call.pc = "loop" /\ call.attempt < call.max_retries
    /\ call.site = "test"
    /\ \E o \in Outcomes : \E body \in BodiesOf("test", o) :
          LET c == LoopIteration(call, o, body)
          IN  c.pc = "returned" /\ call' = c
    /\ UNCHANGED <<variant, transport, chk, cyc, sent, cls, bot, main, tg>>

\* that caller is done with the result
DirectReturn ==
    /\ variant = "http"
    /\ call.pc = "returned" /\ call.site = "test"
    /\ call' = IdleCall
    /\ UNCHANGED <<variant, transport, chk, cyc, sent, cls, bot, main, tg>>

\* `session = await bot._get_session()` (test_async_retry.py 33)
DirectGetSession ==
    /\ variant = "http"
    /\ call.pc = "idle" /\ chk.pc = "idle" /\ cyc.pc = "idle"
    /\ bot' = get_session(bot)
    /\ UNCHANGED <<variant, transport, call, chk, cyc, sent, cls, main, tg>>

\* `await bot._close_session()` (test_async_retry.py 56, 64), with a session
\* or without one
DirectCloseSession ==
    /\ variant = "http"
    /\ call.pc = "idle" /\ chk.pc = "idle" /\ cyc.pc = "idle"
    /\ bot' = close_session(bot)
    /\ UNCHANGED <<variant, transport, call, chk, cyc, sent, cls, main, tg>>

\* the iteration that answers the GET of the base URL, and lines 129-178
InitialPageAnswered ==
    /\ variant = "http"
    /\ chk.pc = "get" /\ call.site = "GET"
    /\ call.pc = "loop" /\ call.attempt < call.max_retries
    /\ \E o \in OutcomesFor(main, "GET") : \E body \in BodiesOf("GET", o) :
          LET c == LoopIteration(call, o, body)
              after == after_initial_page(chk, c)
          IN  /\ c.pc = "returned"
              /\ chk' = after.chk
              /\ call' = after.call
              /\ bot' = IF after.call.pc = "loop" THEN get_session(bot) ELSE bot
    /\ UNCHANGED <<variant, transport, cyc, sent, cls, main, tg>>

\* the iteration that answers the POST of the province form, and lines 180-254
ProvinceSubmitAnswered ==
    /\ variant = "http"
    /\ chk.pc = "post" /\ call.site = "POST"
    /\ call.pc = "loop" /\ call.attempt < call.max_retries
    /\ \E o \in OutcomesFor(main, "POST") : \E body \in BodiesOf("POST", o) :
          LET c == LoopIteration(call, o, body)
          IN  /\ c.pc = "returned"
              /\ chk' = after_province_submit(chk, c)
              /\ call' = IdleCall
    /\ UNCHANGED <<variant, transport, cyc, sent, cls, bot, main, tg>>

(***************************************************************************)
(* The availability decision of the browser variants                       *)
(* (asylum_bot.py 226-308, asylum_bot_selenium.py 235-317)                 *)
(***************************************************************************)
no_appointment_indicators ==
    << <<"No hay ", "citas disponibles">>,
       <<"no hay ", "citas libres">>,
       <<"En este momento ", "no hay ", "citas disponibles">>,
       <<"No quedan ", "citas libres">> >>

calendar_selectors ==
    << "table.calendario", ".calendar",
       "input[type=\"radio\"][name*=\"fecha\"]", "select[name*=\"fecha\"]" >>

\* [name*="fecha"]: the attribute value holds "fecha" (in this letter case)
NameHoldsFecha(name) == name \in {"fecha", "idfecha"}

\* the element is one the CSS selector selects
Selects(selector, e) ==
    CASE selector = "table.calendario" -> e.tag = "table" /\ e.class = "calendario"
      [] selector = ".calendar" -> e.class = "calendar"
      [] selector = "input[type=\"radio\"][name*=\"fecha\"]" ->
            e.tag = "input" /\ e.type = "radio" /\ NameHoldsFecha(e.name)
      [] selector = "select[name*=\"fecha\"]" ->
            e.tag = "select" /\ NameHoldsFecha(e.name)
      [] selector = ".oficina, .office" -> e.class \in {"oficina", "office"}
      [] OTHER -> FALSE

\* query_selector_all / find_elements: the elements selected, in document order
SelectAll(selector, page) == SelectSeq(page.elements, LAMBDA e : Selects(selector, e))

\* what goes wrong while the details are extracted: dates_fail is 0 (nothing),
\* 1 (the query for the date radios raises) or j + 1 (reading the value of
\* radio j raises); office_fail is whether the query for the office, or the
\* read of its text, raises
DateRadios(page) == SelectAll("input[type=\"radio\"][name*=\"fecha\"]", page)
ExtractionEnvs(page) ==
    [dates_fail : 0..(Len(DateRadios(page)) + 1), office_fail : BOOLEAN]
NoExtractionFailure == [dates_fail |-> 0, office_fail |-> FALSE]
\* in the pipeline: nothing goes wrong, or both queries raise, or the read of
\* the second radio's value raises
PipelineExtractionEnvs(page) ==
    ExtractionEnvs(page) \cap
        {NoExtractionFailure, [dates_fail |-> 1, office_fail |-> TRUE],
         [dates_fail |-> 3, office_fail |-> FALSE]}

\* `for element in date_elements: value = ...; if value: dates.append(value)`
\* inside `try: ... except: pass`: the values read before the failure stay
RECURSIVE AppendDates(_, _, _, _)
AppendDates(radios, j, dates_fail, dates) ==
    IF j > Len(radios) \/ dates_fail = j + 1 THEN dates
    ELSE AppendDates(radios, j + 1, dates_fail,
                     IF radios[j].value \notin {NoAttr, ""}
                     THEN Append(dates, radios[j].value) ELSE dates)

\* extract_appointment_details: the values of the date radios that are not
\* empty, and the office.  Playwright is asked for the selector
\* '.oficina, .office, [contains(text(), "Oficina")]', which is no CSS
\* selector: query_selector raises and the bare except leaves office ''.
extract_appointment_details_Deduplicated(v, page, env) ==
    LET all == AppendDates(DateRadios(page), 1, env.dates_fail, <<>>)
        firsts == SelectSeq([i \in 1..Len(all) |-> <<i, all[i]>>],
                            LAMBDA p : \A i \in 1..(p[1] - 1) : all[i] # p[2])
    IN  [province |-> "",
         dates |-> [i \in 1..Len(firsts) |-> firsts[i][2]],
         office |-> "",
         timestamp |-> "now"]
extract_appointment_details(v, page, env) ==
    LET offices == SelectAll(".oficina, .office", page)
    IN  [province |-> "",
         dates |-> IF env.dates_fail = 1 THEN <<>>
                   ELSE AppendDates(DateRadios(page), 1, env.dates_fail, <<>>),
         office |-> IF v = "selenium" /\ ~env.office_fail /\ offices # <<>>
                    THEN offices[1].value ELSE "",
         timestamp |-> "now"]

\* check_appointment_availability: (has_appointments, appointment_info), and
\* what went wrong in the extraction if there was one.
\* `loaded` is whether the wait for the page and the read of its content
\* (wait_for_load_state and page.content(), driver.page_source) end without
\* raising.
Verdict(available, info) ==
    [available |-> available, info |-> info, extraction |-> NoExtractionFailure]
check_appointment_availability_ExtractionAborts(v, page, loaded, env) ==
    IF ~loaded THEN Verdict(FALSE, NoValue)
    ELSE IF \E k \in 1..Len(no_appointment_indicators) :
               Contains(Lower(page.source), Lower(no_appointment_indicators[k]))
    THEN Verdict(FALSE, NoValue)
    ELSE IF \E k \in 1..Len(calendar_selectors) :
               SelectAll(calendar_selectors[k], page) # <<>>
    THEN IF env = NoExtractionFailure
         THEN Verdict(TRUE, Some(extract_appointment_details(v, page, env)))
         ELSE [Verdict(FALSE, NoValue) EXCEPT !.extraction = env]
    ELSE Verdict(FALSE, NoValue)
check_appointment_availability(v, page, loaded, env) ==
    IF ~loaded THEN Verdict(FALSE, NoValue)
    ELSE IF \E k \in 1..Len(no_appointment_indicators) :
               Contains(Lower(page.source), Lower(no_appointment_indicators[k]))
    THEN Verdict(FALSE, NoValue)
    ELSE IF \E k \in 1..Len(calendar_selectors) :
               SelectAll(calendar_selectors[k], page) # <<>>
    THEN [Verdict(TRUE, Some(extract_appointment_details(v, page, env)))
             EXCEPT !.extraction = env]
    ELSE Verdict(FALSE, NoValue)

(***************************************************************************)
(* The steps of the browser variants.  A step is a list of interactions    *)
(* with the page inside one try block; any of them may raise (a timeout, a *)
(* missing element), which makes the step return False.                    *)
(***************************************************************************)
\* the interactions done when number `fail` raises (0: none does)
Done(ops, fail) == IF fail = 0 THEN ops ELSE SubSeq(ops, 1, fail - 1)

\* select_province (asylum_bot.py 113-135, asylum_bot_selenium.py 83-116)
select_province_ops(v, has_driver) ==
    IF v = "playwright"
    THEN <<"wait select provincia", "select provincia", "click Aceptar",
           "wait url citar?p=4&locale=es">>
    ELSE (IF has_driver THEN <<>> ELSE <<"initialize_driver">>)
         \o <<"get base_url", "wait select provincia", "select provincia",
              "click Aceptar", "wait url citar?p=4&locale=es">>

\* select_service_type (asylum_bot.py 137-170, asylum_bot_selenium.py 118-163).
\* Selenium clicks the radio whose parent's text holds the marker if there is
\* one, and goes on to click Aceptar if there is none.
select_service_type_ops(v, police, asylum) ==
    IF v = "playwright"
    THEN <<"wait radio", "check POLICIA", "click Aceptar",
           "wait radio", "check ASILO", "click Aceptar", "wait url acInfo">>
    ELSE <<"wait radio">> \o (IF police THEN <<"click POLICIA">> ELSE <<>>)
         \o <<"click Aceptar", "wait radio">>
         \o (IF asylum THEN <<"click ASILO">> ELSE <<>>)
         \o <<"click Aceptar", "wait url acInfo">>

\* proceed_to_entry_form (asylum_bot.py 172-188, asylum_bot_selenium.py 165-186)
proceed_to_entry_form_ops == <<"click Entrar", "wait url acEntrada">>

\* fill_user_data (asylum_bot.py 190-224, asylum_bot_selenium.py 188-233)
fill_user_data_ops(v) ==
    <<"wait rdbTipoDoc", "select rdbTipoDoc Pasaporte", "fill txtIdCitado",
      "fill txtDesCitado", "fill txtAnnoCitado", "select txtPaisNac", "click Aceptar">>
    \o (IF v = "playwright" THEN <<"wait networkidle">> ELSE <<"sleep 3">>)

\* the first date input auto_select_appointment finds: Playwright asks for
\* 'input[type="radio"][name*="fecha"]:first-of-type', Selenium takes the
\* first of find_elements
HasFirstAppointment(v, page) ==
    LET inputs == SelectSeq(page.elements, LAMBDA e : e.tag = "input")
    IN  IF v = "playwright"
        THEN inputs # <<>> /\ Selects("input[type=\"radio\"][name*=\"fecha\"]", inputs[1])
        ELSE SelectAll("input[type=\"radio\"][name*=\"fecha\"]", page) # <<>>

\* what the page offers to auto_select_appointment after the date step
BookingEnvs ==
    [continue_button : BOOLEAN, idle : BOOLEAN, email_field : BOOLEAN,
     phone_field : BOOLEAN, submit_button : BOOLEAN]

\* auto_select_appointment (asylum_bot.py 310-346, asylum_bot_selenium.py
\* 319-362): the interactions done and the value returned
Booking(ops, value) == [ops |-> ops, value |-> value]
auto_select_appointment(v, page, env) ==
    IF ~HasFirstAppointment(v, page) THEN Booking(<<>>, FALSE)
    ELSE IF ~env.continue_button THEN Booking(<<"check first date">>, FALSE)
    ELSE
    LET begun == <<"check first date", "click continue">>
    IN  IF v = "playwright"
        THEN IF ~env.idle THEN Booking(begun, FALSE)
             ELSE IF ~env.email_field THEN Booking(begun, FALSE)
             ELSE IF ~env.phone_field THEN Booking(begun \o <<"fill email">>, FALSE)
             ELSE IF ~env.submit_button
                  THEN Booking(begun \o <<"fill email", "fill phone">>, FALSE)
             ELSE Booking(begun \o <<"fill email", "fill phone", "click submit">>, TRUE)
        ELSE LET filled == begun
                    \o (IF env.email_field THEN <<"fill email">> ELSE <<>>)
                    \o (IF env.phone_field THEN <<"fill phone">> ELSE <<>>)
             IN  IF env.submit_button
                 THEN Booking(filled \o <<"click submit">>, TRUE)
                 ELSE Booking(filled, FALSE)

BookingOps == {"check first date", "click continue", "fill email", "fill phone", "click submit"}

\* the pages the browser may show at the availability step
BrowserElementLists ==
    { <<>>, <<tblCalendario>>,
      <<radioFecha("2024-05-01"), radioFecha("2024-05-02"), divOficina>>,
      <<selectFecha>> }
BrowserSources ==
    { <<>>, <<"No hay ", "citas disponibles">>, <<"x", "NO HAY ", "Citas Libres">>,
      <<"no hay ", Markup, "citas disponibles">> }
BrowserPages ==
    {Page(<<>>, src, el) : src \in BrowserSources, el \in BrowserElementLists}

\* what the bot holds of its browser: Playwright's self.browser and
\* self.context, Selenium's self.driver ("dead" after a quit that raised), and
\* the cookies kept by self.context, named by the province whose check
\* received them (None: no cookie)
NoTransport == [browser |-> FALSE, context |-> FALSE, driver |-> "none", jar |-> None]

\* initialize_browser (asylum_bot.py 39-83): both launches fail, or
\* new_context fails, or neither
InitializeBrowserOutcomes == {"launch_fails", "new_context_fails", "ok"}
initialize_browser(t, r) ==
    CASE r = "launch_fails" -> t
      [] r = "new_context_fails" -> [t EXCEPT !.browser = TRUE]
      [] OTHER -> [t EXCEPT !.browser = TRUE, !.context = TRUE, !.jar = None]

\* close_browser (asylum_bot.py 86-95): the two closes are in one try, so a
\* context.close() that raises leaves the browser as it is; what either
\* raises is logged and dropped
close_browser(t, context_closes, browser_closes) ==
    IF t.context /\ ~context_closes THEN t
    ELSE [t EXCEPT !.context = FALSE,
                   !.browser = IF @ /\ ~browser_closes THEN TRUE ELSE FALSE]

\* close_driver (asylum_bot_selenium.py 73-81): self.driver = None comes
\* after quit(), in the same try
close_driver(t, quits) ==
    [t EXCEPT !.driver = IF @ = "none" \/ quits THEN "none" ELSE "dead"]

\* return from check_province_appointments through its finally clause:
\* Playwright closes the page if there is one, and a close that raises takes
\* the place of the return (asylum_bot.py 392-394); Selenium's close_driver
\* swallows what quit raises and then keeps the driver
\* (asylum_bot_selenium.py 73-81, 402-403)
Finally(k, t, value, closes) ==
    IF variant = "playwright"
    THEN [chk |-> [k EXCEPT !.pc = "returned",
                            !.result = IF closes \/ k.ctx # "open" THEN value ELSE NoValue,
                            !.ctx = IF @ # "open" THEN @
                                    ELSE IF closes THEN "closed" ELSE "close_raised"],
          transport |-> t]
    ELSE [chk |-> [k EXCEPT !.pc = "returned", !.result = value],
          transport |-> [t EXCEPT !.driver = IF @ = "none" \/ closes THEN "none" ELSE "dead"]]

\* one step of the pipeline: the interactions `ops` of which number `fail`
\* raises; `if not await self.step(): return None`.  Each interaction is
\* made once: `transient` tells whether a second try would have succeeded.
StepGoesOn(k, t, ops, fail, stage, next, closes, transient) ==
    LET acted == [k EXCEPT !.log = @ \o Done(ops, fail)]
    IN  IF fail = 0
        THEN [chk |-> [acted EXCEPT !.pc = next, !.stages = Append(@, stage)],
              transport |-> t]
        ELSE [chk |-> [acted EXCEPT !.pc = next, !.failed = k.pc,
                                    !.transient = transient],
              transport |-> t]
Step(k, t, ops, fail, stage, next, closes, transient) ==
    LET acted == [k EXCEPT !.log = @ \o Done(ops, fail)]
    IN  IF fail = 0
        THEN [chk |-> [acted EXCEPT !.pc = next, !.stages = Append(@, stage)],
              transport |-> t]
        ELSE Finally([acted EXCEPT !.failed = k.pc, !.transient = transient],
                     t, NoValue, closes)

\* asylum_bot.py 350-357: page = await self.create_new_page(); page.goto(...).
\* The page is one of self.context, which all pages of the bot share: the
\* request of goto carries the cookies of the context, and the answer may set
\* one.
CreateNewPage ==
    /\ variant = "playwright" /\ chk.pc = "enter"
    /\ \E r \in InitializeBrowserOutcomes, made \in BOOLEAN, gone \in BOOLEAN,
          closes \in BOOLEAN, transient \in BOOLEAN, set_cookie \in BOOLEAN :
          LET t == IF transport.context THEN transport ELSE initialize_browser(transport, r)
              opened == [chk EXCEPT !.ctx = "open", !.log = <<"goto base_url">>,
                                    !.cookies = t.jar]
              f == IF ~t.context \/ ~made
                   THEN Finally([chk EXCEPT !.failed = "enter"], t, NoValue, closes)
                   ELSE IF ~gone
                   THEN Finally([chk EXCEPT !.ctx = "open", !.failed = "enter",
                                            !.transient = transient],
                                t, NoValue, closes)
                   ELSE [chk |-> [opened EXCEPT !.pc = "province"],
                         transport |-> IF set_cookie THEN [t EXCEPT !.jar = chk.province]
                                                     ELSE t]
          IN  chk' = f.chk /\ transport' = f.transport
    /\ UNCHANGED <<variant, call, cyc, sent, cls, bot, main, tg>>

\* Step 1
SelectProvince ==
    /\ variant \in {"playwright", "selenium"} /\ chk.pc = "province"
    /\ LET ops == select_province_ops(variant, transport.driver # "none")
       IN  \E fail \in 0..Len(ops), closes \in BOOLEAN, transient \in BOOLEAN :
              \* a driver that was quit answers nothing
              /\ (variant = "selenium" /\ transport.driver = "dead") => fail = 1
              /\ LET t == IF variant = "selenium" /\ transport.driver = "none" /\ fail # 1
                          THEN [transport EXCEPT !.driver = "live"] ELSE transport
                     f == Step(chk, t, ops, fail, "PROVINCE_SELECTED", "service", closes, transient)
                 IN  chk' = f.chk /\ transport' = f.transport
    /\ UNCHANGED <<variant, call, cyc, sent, cls, bot, main, tg>>

\* Step 2
SelectServiceType ==
    /\ chk.pc = "service"
    /\ \E police \in BOOLEAN, asylum \in BOOLEAN, closes \in BOOLEAN, transient \in BOOLEAN :
          LET ops == select_service_type_ops(variant, police, asylum)
          IN  \E fail \in 0..Len(ops) :
                 LET f == Step(chk, transport, ops, fail, "SERVICE_SELECTED", "entry", closes, transient)
                 IN  chk' = f.chk /\ transport' = f.transport
    /\ UNCHANGED <<variant, call, cyc, sent, cls, bot, main, tg>>

\* Step 3
ProceedToEntryForm ==
    /\ chk.pc = "entry"
    /\ \E fail \in 0..Len(proceed_to_entry_form_ops), closes \in BOOLEAN, transient \in BOOLEAN :
          LET f == Step(chk, transport, proceed_to_entry_form_ops, fail,
                        "ENTRY_FORM_REACHED", "availability_wait", closes, transient)
          IN  chk' = [f.chk EXCEPT !.pc = IF @ = "availability_wait" THEN "userdata" ELSE @]
              /\ transport' = f.transport
    /\ UNCHANGED <<variant, call, cyc, sent, cls, bot, main, tg>>

\* Step 4; the browser then shows the page the site answers with
FillUserData ==
    /\ chk.pc = "userdata"
    /\ LET ops == fill_user_data_ops(variant)
       IN  \E fail \in 0..Len(ops), closes \in BOOLEAN, transient \in BOOLEAN,
              page \in BrowserPages :
              \* time.sleep(3) does not raise
              /\ (variant = "selenium") => fail # Len(ops)
              /\ LET f == Step(chk, transport, ops, fail, "USER_DATA_SUBMITTED",
                               "availability", closes, transient)
                 IN  /\ chk' = IF fail = 0 THEN [f.chk EXCEPT !.doc = Some(page)] ELSE f.chk
                     /\ transport' = f.transport
    /\ UNCHANGED <<variant, call, cyc, sent, cls, bot, main, tg>>

\* `if has_appointments and appointment_info:` (asylum_bot.py 378,
\* asylum_bot_selenium.py 387)
has_appointments_always(verdict) == TRUE
has_appointments_and_info(verdict) == verdict.available /\ verdict.info # NoValue

\* Step 5: has_appointments, appointment_info = check_appointment_availability();
\* `if has_appointments and appointment_info:` ... else `return None`
CheckAppointmentAvailability ==
    /\ chk.pc = "availability"
    /\ \E loaded \in BOOLEAN, closes \in BOOLEAN, env \in PipelineExtractionEnvs(chk.doc[1]) :
          LET verdict == check_appointment_availability(variant, chk.doc[1], loaded, env)
              heard == [chk EXCEPT !.classifier = Some(verdict),
                                   !.stages = Append(@, "AVAILABILITY_CHECKED")]
              f == IF has_appointments_and_info(verdict)
                   THEN [chk |-> [heard EXCEPT !.pc = "booking"], transport |-> transport]
                   ELSE Finally(heard, transport, NoValue, closes)
          IN  chk' = f.chk /\ transport' = f.transport
    /\ UNCHANGED <<variant, call, cyc, sent, cls, bot, main, tg>>

\* appointment_info['province'] = province; booking_success =
\* auto_select_appointment(); appointment_info['booking_attempted'] =
\* booking_success; return appointment_info
AutoSelectAppointment ==
    /\ chk.pc = "booking"
    /\ \E env \in BookingEnvs, closes \in BOOLEAN :
          LET booking == auto_select_appointment(variant, chk.doc[1], env)
              found == chk.classifier[1].info[1]
              info == [province |-> chk.province, dates |-> found.dates,
                       office |-> found.office, timestamp |-> found.timestamp,
                       booking_attempted |-> booking.value]
              f == Finally([chk EXCEPT !.log = @ \o booking.ops], transport,
                           Some(info), closes)
          IN  chk' = f.chk /\ transport' = f.transport
    /\ UNCHANGED <<variant, call, cyc, sent, cls, bot, main, tg>>

(***************************************************************************)
(* run_single_check (asylum_bot_requests.py 260-304, asylum_bot.py 396-432,*)
(* asylum_bot_selenium.py 405-438)                                         *)
(***************************************************************************)
\* `ended` tells how the last activation ended: "no" (none has ended since the
\* bot was built or the running one has not), "returned", "caught" (the outer
\* `except Exception` took an exception, logged it and returned) or "raised"
IdleCyc ==
    [pc |-> "idle", i |-> 0, found_appointments |-> <<>>, outcomes |-> <<>>,
     ended |-> "no",
     \* the number of `await asyncio.sleep(2)` done in this activation
     paused |-> 0,
     \* the number of checks of this activation that logged 'Failed to access
     \* initial page', and self.consecutive_failures at its entry
     initial_failed |-> 0, failures_before |-> 0]

\* `except Exception as e: logger.error(f"Error in check cycle: {e}")`
\* (asylum_bot_requests.py 303-304, asylum_bot.py 431-432,
\* asylum_bot_selenium.py 437-438)
CycleExcept == "caught"

\* after check_province_appointments: `if appointment_info:` (append, notify)
\* else, and in the per-province `except Exception`, straight to the pause
AfterCheckSkipsNotify(k) == "pause"
AfterCheckOncePerProvince(k) ==
    IF k.result # NoValue
          /\ \A j \in 1..Len(main.previous) : main.previous[j] # k.province
    THEN "notify" ELSE "pause"
AfterCheckStopsOnNone(k) == IF k.result # NoValue THEN "notify" ELSE "idle"
AfterCheck(k) == IF k.result # NoValue THEN "notify" ELSE "pause"

\* found_appointments = []; the for loop is entered
StartCycle ==
    /\ variant = "http"
    /\ cyc.pc = "idle" /\ call.pc = "idle" /\ chk.pc = "idle"
    /\ bot.consecutive_failures < MaxFailures
    /\ cyc' = [IdleCyc EXCEPT !.pc = "loop", !.i = 1,
                              !.failures_before = bot.consecutive_failures]
    /\ sent' = <<>>
    /\ UNCHANGED <<variant, transport, call, chk, cls, bot, main, tg>>

\* asylum_bot.py 401-404: `if not self.browser: await self.initialize_browser()`;
\* what it raises ends the cycle in the outer except (431-432)
StartCycleBrowser ==
    /\ variant \in {"playwright", "selenium"}
    /\ main.pc # "stopped"
    /\ cyc.pc = "idle" /\ chk.pc = "idle"
    /\ \E r \in InitializeBrowserOutcomes :
          IF variant = "playwright" /\ ~transport.browser
          THEN /\ transport' = initialize_browser(transport, r)
               /\ cyc' = IF r = "ok" THEN [IdleCyc EXCEPT !.pc = "loop", !.i = 1]
                                     ELSE [IdleCyc EXCEPT !.ended = CycleExcept]
          ELSE /\ transport' = transport
               /\ cyc' = [IdleCyc EXCEPT !.pc = "loop", !.i = 1]
    /\ sent' = <<>>
    /\ UNCHANGED <<variant, call, chk, cls, bot, main, tg>>

\* for province in self.provinces: ... check_province_appointments(province)
NextProvinceBrowser ==
    /\ variant \in {"playwright", "selenium"}
    /\ cyc.pc = "loop" /\ cyc.i <= Len(bot.provinces)
    /\ cyc' = [cyc EXCEPT !.pc = "checking"]
    /\ chk' = [IdleChk EXCEPT !.pc = IF variant = "playwright" THEN "enter" ELSE "province",
                              !.province = bot.provinces[cyc.i]]
    /\ UNCHANGED <<variant, transport, call, sent, cls, bot, main, tg>>

\* for province in self.provinces: ... check_province_appointments(province)
NextProvinceHttp ==
    /\ variant = "http"
    /\ cyc.pc = "loop" /\ cyc.i <= Len(bot.provinces)
    /\ cyc' = [cyc EXCEPT !.pc = "checking"]
    /\ chk' = EnterCheckHttp(bot.provinces[cyc.i])
    /\ call' = NewCall("GET", default_max_retries)
    /\ bot' = get_session(bot)
    /\ UNCHANGED <<variant, transport, sent, cls, main, tg>>

\* how the check of a province ended, for the record of the cycle: with a
\* result, with none, or with none because its last request timed out or
\* could not connect on every attempt
Outcome(k) ==
    IF k.result # NoValue THEN "result"
    ELSE IF k.classifier # NoValue /\ ~k.classifier[1].available THEN "not_available"
    ELSE IF /\ k.answers # <<>>
            /\ k.answers[Len(k.answers)].last # NoValue
            /\ k.answers[Len(k.answers)].last[1].error \in
                  {"ClientConnectorError", "ServerTimeoutError"}
         THEN "timeout"
         ELSE "none"

\* the check returned at lines 129-131, after
\* logger.error(f"Failed to access initial page for {province}")
FailedInitialPage(k) ==
    variant = "http" /\ Len(k.answers) = 1 /\ ~k.answers[1].ok

\* the check has returned: `if appointment_info:` (append, go and notify) `else:`
CheckReturned ==
    /\ cyc.pc = "checking" /\ chk.pc = "returned"
    /\ cyc' = [cyc EXCEPT
                 !.pc = AfterCheck(chk),
                 !.found_appointments = IF chk.result # NoValue THEN @ \o chk.result ELSE @,
                 !.outcomes = Append(@, Outcome(chk)),
                 !.initial_failed = IF FailedInitialPage(chk) THEN @ + 1 ELSE @]
    /\ chk' = IdleChk
    /\ UNCHANGED <<variant, transport, call, sent, cls, bot, main, tg>>

\* await self.telegram_notifier.send_appointment_notification(province, appointment_info):
\* send_appointment_notification (telegram_notifier.py 46-55) returns True or
\* False and raises nothing; the value is dropped
NotifyUntilDelivered ==
    /\ cyc.pc = "notify"
    /\ \E delivered \in BOOLEAN :
          /\ sent' = Append(sent, [province |-> bot.provinces[cyc.i],
                                   info |-> cyc.found_appointments[Len(cyc.found_appointments)],
                                   delivered |-> delivered])
          /\ cyc' = [cyc EXCEPT !.pc =
                        IF delivered \/ (Len(sent) > 0 /\ sent[Len(sent)].province = bot.provinces[cyc.i])
                        THEN "pause" ELSE "notify"]
    /\ UNCHANGED <<variant, transport, call, chk, cls, bot, main, tg>>
Notify ==
    /\ cyc.pc = "notify"
    /\ \E delivered \in BOOLEAN :
          sent' = Append(sent, [province |-> bot.provinces[cyc.i],
                                info |-> cyc.found_appointments[Len(cyc.found_appointments)],
                                delivered |-> delivered])
    /\ cyc' = [cyc EXCEPT !.pc = "pause"]
    /\ UNCHANGED <<variant, transport, call, chk, cls, bot, main, tg>>

\* await asyncio.sleep(2), then the next province
Pause ==
    /\ cyc.pc = "pause"
    /\ cyc' = [cyc EXCEPT !.pc = "loop", !.i = @ + 1, !.paused = @ + 1]
    /\ UNCHANGED <<variant, transport, call, chk, sent, cls, bot, main, tg>>

\* the loop is over: the summary, then run_single_check returns.  With
\* nothing found the HTTP variant reads logger.handlers[0] (lines 294-297),
\* which raises IndexError when the module's logger has no handler of its own.
\* The handlers of logging.getLogger('asylum_bot_requests') are what the
\* program that imports the module gave that logger: none (main.py and the
\* test scripts configure the root logger only), a handler without a buffer
\* (a StreamHandler), or one with a buffer (a MemoryHandler).
LoggerHandlers == {"none", "stream", "memory"}
HandlersUnder(m) == IF m.pc = "none" THEN LoggerHandlers ELSE {"none"}

\* lines 287-301.  The generator of `all(...)` runs over a list of one
\* element, the buffer of the first handler or [], and looks for the phrase
\* in its str(): `phrase` tells whether the text of the buffered records
\* holds 'Failed to access initial page', which rests on what the handler
\* has kept since it was last flushed.
summary_Propagates(b, found_appointments, handler, phrase) ==
    IF found_appointments # <<>>
    THEN [bot |-> [b EXCEPT !.consecutive_failures = 0], ended |-> "returned"]
    ELSE IF handler = "none"
    THEN [bot |-> b, ended |-> "raised"]
    ELSE IF handler = "memory" /\ phrase
    THEN [bot |-> [b EXCEPT !.consecutive_failures = @ + 1], ended |-> "returned"]
    ELSE [bot |-> [b EXCEPT !.consecutive_failures = 0], ended |-> "returned"]
summary(b, found_appointments, handler, phrase) ==
    IF found_appointments # <<>>
    THEN [bot |-> [b EXCEPT !.consecutive_failures = 0], ended |-> "returned"]
    ELSE IF handler = "none"
    THEN [bot |-> b, ended |-> CycleExcept]
    ELSE IF handler = "memory" /\ phrase
    THEN [bot |-> [b EXCEPT !.consecutive_failures = @ + 1], ended |-> "returned"]
    ELSE [bot |-> [b EXCEPT !.consecutive_failures = 0], ended |-> "returned"]

EndCycle ==
    /\ cyc.pc = "loop" /\ cyc.i > Len(bot.provinces)
    /\ IF variant = "http"
       THEN \E handler \in HandlersUnder(main) : \E phrase \in BOOLEAN :
               LET s == summary(bot, cyc.found_appointments, handler, phrase)
               IN  /\ cyc' = [cyc EXCEPT !.pc = "idle", !.ended = s.ended]
                   /\ bot' = s.bot
       ELSE /\ cyc' = [cyc EXCEPT !.pc = "idle", !.ended = "returned"]
            /\ bot' = bot
    /\ UNCHANGED <<variant, transport, call, chk, sent, cls, main, tg>>

(***************************************************************************)
(* TelegramNotifier (telegram_notifier.py).  A message is the sequence of *)
(* its parts; the time stamp, which datetime.now() gives, is left out.     *)
(***************************************************************************)
\* what session.post to the Bot API can come to
TelegramStatuses == {200, 400, 401, 403, 429, 500}
ApiOutcomes ==
    [status : TelegramStatuses, error : {None}] \cup [status : {0}, error : Errors]

\* an argument whose str() raises, and a value of appointment_info['dates']
\* that is true and cannot be sliced
Unprintable == "<unprintable>"
Printable(x) == x # Unprintable
Dates(items) == [kind |-> "list", items |-> items]
Unsliceable == [kind |-> "other", items |-> <<>>]

IdleTg ==
    [pc |-> "idle", op |-> None, api |-> NoValue, posted |-> NoValue,
     result |-> NoValue, raised |-> FALSE,
     \* whether an exception was raised while the text was being built
     formatting_error |-> FALSE, fallback |-> FALSE]

\* what a send operation comes to: the value it returns, the text it gave
\* to session.post, if any, and what the API answered to it
Sent(result, message, api, formatting_error, fallback) ==
    [result |-> result, posted |-> Some(message), api |-> Some(api),
     formatting_error |-> formatting_error, fallback |-> fallback]
NotSent(formatting_error) ==
    [result |-> FALSE, posted |-> NoValue, api |-> NoValue,
     formatting_error |-> formatting_error, fallback |-> FALSE]

\* send_message (21-44): True on status 200, False on another status and on
\* whatever the request raises
send_message_TrueOnAnyAnswer(message, api) ==
    Sent(api.error = None, message, api, FALSE, FALSE)
send_message(message, api) ==
    Sent(api.error = None /\ api.status = 200, message, api, FALSE, FALSE)

Take(s, n) == SubSeq(s, 1, Min(Len(s), n))

\* format_appointment_message (57-96).  [text, error]: the text it returns,
\* NoValue when it raises; `error` tells whether its try block raised.  The
\* fallback text of the except clause is built outside the try: what it
\* raises leaves the function.
format_appointment_message(province, appointment_info) ==
    IF ~Printable(province) THEN [text |-> NoValue, error |-> TRUE]
    ELSE IF appointment_info.dates.kind # "list"
    THEN [text |-> Some(<<"Appointment found in", province>>), error |-> TRUE]
    ELSE
    LET dates == appointment_info.dates.items
    IN  [text |-> Some(
            <<"ASYLUM APPOINTMENT AVAILABLE!", "Province:", province>>
            \o (IF dates # <<>>
                THEN <<"Available dates:">> \o Take(dates, 5)
                     \o (IF Len(dates) > 5
                         THEN <<"... and", ToString(Len(dates) - 5), "more">>
                         ELSE <<>>)
                ELSE <<>>)
            \o (IF appointment_info.office # ""
                THEN <<"Office:", appointment_info.office>> ELSE <<>>)
            \o <<"User Details:", "ALAN DOUGLAS COHEN TELLO", "191484632",
                 "alancohen7@gmail.com", "692959148">>
            \o (IF appointment_info.booking_attempted
                THEN <<"Auto-booking attempted!">>
                ELSE <<"Manual booking required">>)
            \o <<"Visit:">> \o base_url),
         error |-> FALSE]

\* send_appointment_notification (46-55)
send_appointment_notification(province, appointment_info, api) ==
    LET f == format_appointment_message(province, appointment_info)
    IN  IF f.text = NoValue THEN NotSent(TRUE)
        ELSE [send_message(f.text[1], api) EXCEPT
                !.formatting_error = f.error, !.fallback = f.error]

\* send_error_notification (98-109) and send_status_update (111-122): the
\* text is built inside the try
send_error_notification(error_message, api) ==
    IF ~Printable(error_message) THEN NotSent(TRUE)
    ELSE send_message(<<"Asylum Bot Error", error_message>>, api)

send_status_update(status, api) ==
    IF ~Printable(status) THEN NotSent(TRUE)
    ELSE send_message(<<"Asylum Bot Status", status>>, api)

\* the arguments of the calls
Texts == {"Test Message", "Monitoring error: timeout", Unprintable}
DateLists ==
    {Dates(<<>>), Dates(<<"01/12/2025", "02/12/2025">>),
     Dates(<<"01/12/2025", "02/12/2025", "03/12/2025", "04/12/2025",
             "05/12/2025", "09/12/2025", "10/12/2025">>),
     Unsliceable}
AppointmentInfos ==
    [dates : DateLists, office : {"", "Oficina de Asilo"},
     booking_attempted : BOOLEAN]

Returned(op, r) ==
    [pc |-> "returned", op |-> op, api |-> r.api, posted |-> r.posted,
     result |-> Some(r.result), raised |-> FALSE,
     formatting_error |-> r.formatting_error, fallback |-> r.fallback]

\* success = await notifier.send_message(test_message) (test_telegram.py 32)
SendMessage ==
    /\ tg.pc = "idle"
    /\ \E message \in Texts \ {Unprintable}, api \in ApiOutcomes :
          tg' = Returned("send_message", send_message(<<message>>, api))
    /\ UNCHANGED <<variant, transport, call, chk, cyc, sent, cls, bot, main>>

SendAppointmentNotification ==
    /\ tg.pc = "idle"
    /\ \E province \in {provinces[i] : i \in 1..Len(provinces)} \cup {Unprintable},
          info \in AppointmentInfos, api \in ApiOutcomes :
          tg' = Returned("send_appointment_notification",
                         send_appointment_notification(province, info, api))
    /\ UNCHANGED <<variant, transport, call, chk, cyc, sent, cls, bot, main>>

SendErrorNotification ==
    /\ tg.pc = "idle"
    /\ \E error_message \in Texts, api \in ApiOutcomes :
          tg' = Returned("send_error_notification",
                         send_error_notification(error_message, api))
    /\ UNCHANGED <<variant, transport, call, chk, cyc, sent, cls, bot, main>>

SendStatusUpdate ==
    /\ tg.pc = "idle"
    /\ \E status \in Texts, api \in ApiOutcomes :
          tg' = Returned("send_status_update", send_status_update(status, api))
    /\ UNCHANGED <<variant, transport, call, chk, cyc, sent, cls, bot, main>>

\* the caller has taken the value
NotifierDone ==
    /\ tg.pc = "returned"
    /\ tg' = IdleTg
    /\ UNCHANGED <<variant, transport, call, chk, cyc, sent, cls, bot, main>>

(***************************************************************************)
(* main (main.py 30-54) and run_continuous_monitoring                      *)
(* (asylum_bot_requests.py 306-352)                                        *)
(***************************************************************************)
\* `previous` holds the provinces the cycle before this one notified, in
\* order; `slept` the seconds of the last wait between cycles
\* `waits` counts the waits between cycles that are over; a notice records
\* cycle_count and `waits` at the time it was sent
IdleMain ==
    [pc |-> "none", TELEGRAM_BOT_TOKEN |-> None, TELEGRAM_CHAT_ID |-> None,
     cycle_count |-> 0, notices |-> <<>>, previous |-> <<>>, slept |-> 0,
     waits |-> 0, portal_cycles |-> 0]

Notice(kind, m) == [kind |-> kind, cycle |-> m.cycle_count, waits |-> m.waits]

\* what os.getenv gives: None for a variable that is not set
Credentials == {None, "", "123456:ABC-DEF"}

\* `if not telegram_token or not chat_id:`
MissingCredentialsOnlyUnset(token, chat_id) == token = None \/ chat_id = None
MissingCredentials(token, chat_id) ==
    token \in {None, ""} \/ chat_id \in {None, ""}

\* `if cycle_count % 12 == 0:`
status_update_period == 12
StatusUpdateDueFromFirst(cycle_count) == cycle_count % status_update_period = 1
StatusUpdateDue(cycle_count) == cycle_count % status_update_period = 0

\* main.py 32-41: the credentials are read; without them ValueError is raised,
\* logged by `except Exception` and raised again; with them the bot is built
Main ==
    /\ main.pc = "start"
    /\ IF MissingCredentials(main.TELEGRAM_BOT_TOKEN, main.TELEGRAM_CHAT_ID)
       THEN /\ main' = [main EXCEPT !.pc = "raised"]
            /\ bot' = bot
       ELSE /\ main' = [main EXCEPT !.pc = "monitoring"]
            /\ bot' = NewBot
    /\ UNCHANGED <<variant, transport, call, chk, cyc, sent, cls, tg>>

\* main.py 48, asylum_bot_requests.py 308-317: the startup status update,
\* cycle_count = 0
StartMonitoring ==
    /\ main.pc = "monitoring"
    /\ main' = [main EXCEPT !.pc = "loop", !.cycle_count = 0,
                            !.notices = Append(@, Notice("startup", [main EXCEPT !.cycle_count = 0]))]
    /\ UNCHANGED <<variant, transport, call, chk, cyc, sent, cls, bot, tg>>

\* lines 319-322 and 262-267: cycle_count += 1; run_single_check is entered
MonitoringIteration ==
    /\ main.pc = "loop" /\ main.cycle_count < MaxCycleCount
    /\ cyc.pc = "idle" /\ call.pc = "idle" /\ chk.pc = "idle"
    /\ main' = [main EXCEPT !.pc = "cycle", !.cycle_count = @ + 1]
    /\ cyc' = [IdleCyc EXCEPT !.pc = "loop", !.i = 1,
                              !.failures_before = bot.consecutive_failures]
    /\ sent' = <<>>
    /\ UNCHANGED <<variant, transport, call, chk, cls, bot, tg>>

\* lines 324-330 and 336-339: run_single_check is over.  When it returned
\* (with or without an exception caught inside it), the status update of
\* every twelfth cycle is sent; when it raised an Exception, the error
\* notification is.
AfterCycle ==
    /\ main.pc = "cycle" /\ cyc.pc = "idle"
    /\ main' = IF cyc.ended = "raised"
               THEN [main EXCEPT
                       !.pc = "recover",
                       !.notices = Append(@, Notice("error", main)),
                       !.previous = [j \in 1..Len(sent) |-> sent[j].province]]
               ELSE [main EXCEPT
                       !.pc = "wait",
                       !.notices = IF StatusUpdateDue(main.cycle_count)
                                   THEN Append(@, Notice("active", main))
                                   ELSE @,
                       !.previous = [j \in 1..Len(sent) |-> sent[j].province]]
    /\ UNCHANGED <<variant, transport, call, chk, cyc, sent, cls, bot, tg>>

\* lines 332-334: await asyncio.sleep(300); line 341: await asyncio.sleep(60);
\* then the next iteration of `while True`
WaitForNextCycle ==
    /\ main.pc \in {"wait", "recover"}
    /\ main' = [main EXCEPT
                  !.pc = "loop",
                  !.slept = IF main.pc = "wait" THEN 300 ELSE 60,
                  !.waits = @ + 1]
    /\ UNCHANGED <<variant, transport, call, chk, cyc, sent, cls, bot, tg>>

\* The ways run_continuous_monitoring is left.  Its loop catches every
\* Exception, so what leaves it is a BaseException raised at an await:
\* KeyboardInterrupt, or the CancelledError of a cancelled task (what
\* asyncio.run does to the main task when it is interrupted).
Interrupts == {"KeyboardInterrupt", "CancelledError"}

\* asylum_bot_requests.py 343-352: the activations of the cycle are unwound
\* and their locals are gone;
\* `except KeyboardInterrupt` sends the status update; `finally` awaits
\* _close_session
StopMonitoring ==
    /\ variant = "http"
    /\ main.pc \in {"loop", "cycle", "wait", "recover"}
    /\ \E e \in Interrupts :
          main' = [main EXCEPT
                     !.pc = "stopped",
                     !.notices = IF e = "KeyboardInterrupt"
                                 THEN Append(@, Notice("stopped", main)) ELSE @]
    /\ call' = IdleCall
    /\ chk' = IdleChk
    /\ cyc' = IF cyc.pc = "idle" THEN cyc
              ELSE [IdleCyc EXCEPT !.ended = "raised"]
    /\ bot' = close_session(bot)
    /\ UNCHANGED <<variant, transport, sent, cls, tg>>

\* asylum_bot.py 449-452 and asylum_bot_selenium.py 465-473: the browser
\* bots' monitoring is left while a cycle runs or between two cycles.  A
\* check in progress ends through its own finally clause first (Playwright
\* closes its page, Selenium calls close_driver); then `finally` closes the
\* browser (close_browser) or the driver (close_driver again).
StopMonitoringBrowser ==
    /\ variant \in {"playwright", "selenium"}
    /\ main.pc = "none"
    /\ \E first \in BOOLEAN, second \in BOOLEAN :
          transport' =
             IF variant = "playwright"
             THEN close_browser(transport, first, second)
             ELSE close_driver(
                     IF chk.pc \in {"idle", "returned"} THEN transport
                     ELSE close_driver(transport, first),
                     second)
    /\ main' = [main EXCEPT !.pc = "stopped"]
    /\ chk' = IdleChk
    /\ cyc' = IF cyc.pc = "idle" THEN cyc
              ELSE [IdleCyc EXCEPT !.ended = "raised"]
    /\ UNCHANGED <<variant, call, sent, cls, bot, tg>>

(***************************************************************************)
(* The HTTP bot                                                            *)
(***************************************************************************)
IdleCls == [pc |-> "idle"]

Init ==
    /\ variant = "http"
    /\ call = IdleCall
    /\ chk = IdleChk
    /\ cyc = IdleCyc
    /\ sent = <<>>
    /\ cls = IdleCls
    /\ transport = NoTransport
    /\ bot = NewBot
    /\ main = IdleMain
    /\ tg = IdleTg

Next ==
    \/ DirectCall
    \/ RetryAgain
    \/ RetryLoopEnd
    \/ DirectAnswered
    \/ DirectReturn
    \/ DirectGetSession
    \/ DirectCloseSession
    \/ StartCycle
    \/ NextProvinceHttp
    \/ InitialPageAnswered
    \/ ProvinceSubmitAnswered
    \/ CheckReturned
    \/ Notify
    \/ Pause
    \/ EndCycle

Spec == Init /\ [][Next]_vars

(***************************************************************************)
(* The browser bots (Playwright, Selenium)                                 *)
(***************************************************************************)
InitBrowser ==
    /\ variant \in {"playwright", "selenium"}
    /\ transport = NoTransport
    /\ call = IdleCall
    /\ chk = IdleChk
    /\ cyc = IdleCyc
    /\ sent = <<>>
    /\ cls = IdleCls
    /\ bot = NewBot
    /\ main = IdleMain
    /\ tg = IdleTg

NextBrowser ==
    \/ StartCycleBrowser
    \/ NextProvinceBrowser
    \/ CreateNewPage
    \/ SelectProvince
    \/ SelectServiceType
    \/ ProceedToEntryForm
    \/ FillUserData
    \/ CheckAppointmentAvailability
    \/ AutoSelectAppointment
    \/ CheckReturned
    \/ Notify
    \/ Pause
    \/ EndCycle

SpecBrowser == InitBrowser /\ [][NextBrowser]_vars

\* the cycles under run_continuous_monitoring, which an interrupt ends
\* (asylum_bot.py 434-452, asylum_bot_selenium.py 455-473)
NextBrowserMonitoring ==
    \/ NextBrowser
    \/ StopMonitoringBrowser

SpecBrowserMonitoring == InitBrowser /\ [][NextBrowserMonitoring]_vars

(***************************************************************************)
(* The process main.py starts: main, then the HTTP bot's monitoring loop   *)
(***************************************************************************)
InitMain ==
    /\ variant = "http"
    /\ transport = NoTransport
    /\ call = IdleCall
    /\ chk = IdleChk
    /\ cyc = IdleCyc
    /\ sent = <<>>
    /\ cls = IdleCls
    /\ bot = NoBot
    /\ main \in [pc : {"start"}, TELEGRAM_BOT_TOKEN : Credentials,
                  TELEGRAM_CHAT_ID : Credentials, cycle_count : {0},
                  notices : {<<>>}, previous : {<<>>}, slept : {0},
                  waits : {0}, portal_cycles : {MaxCycles}]
    /\ tg = IdleTg

NextMain ==
    \/ Main
    \/ StartMonitoring
    \/ MonitoringIteration
    \/ NextProvinceHttp
    \/ RetryAgain
    \/ InitialPageAnswered
    \/ ProvinceSubmitAnswered
    \/ CheckReturned
    \/ Notify
    \/ Pause
    \/ EndCycle
    \/ AfterCycle
    \/ WaitForNextCycle
    \/ StopMonitoring

SpecMain == InitMain /\ [][NextMain]_vars

\* The steps of the monitoring that are the bot's own.  Each is a request
\* or a notification bounded by its timeout, a sleep, or code without an
\* await, so one that can be taken is taken; when the process is interrupted
\* is not the bot's to decide.
MonitoringSteps ==
    \/ Main
    \/ StartMonitoring
    \/ MonitoringIteration
    \/ NextProvinceHttp
    \/ RetryAgain
    \/ InitialPageAnswered
    \/ ProvinceSubmitAnswered
    \/ CheckReturned
    \/ Notify
    \/ Pause
    \/ EndCycle
    \/ AfterCycle
    \/ WaitForNextCycle

InitMainFair ==
    /\ variant = "http"
    /\ transport = NoTransport
    /\ call = IdleCall
    /\ chk = IdleChk
    /\ cyc = IdleCyc
    /\ sent = <<>>
    /\ cls = IdleCls
    /\ bot = NoBot
    /\ main \in [pc : {"start"}, TELEGRAM_BOT_TOKEN : Credentials,
                  TELEGRAM_CHAT_ID : Credentials, cycle_count : {0},
                  notices : {<<>>}, previous : {<<>>}, slept : {0},
                  waits : {0}, portal_cycles : {MaxFairCycles}]
    /\ tg = IdleTg

SpecMainFair == InitMainFair /\ [][NextMain]_vars /\ WF_vars(MonitoringSteps)

(***************************************************************************)
(* The classifiers alone, on pages drawn from a bounded set                *)
(***************************************************************************)
ClassifierTokens ==
    {"No hay ", "NO HAY ", "citas disponibles", "Citas Libres", "No quedan ",
     "En este momento ", Markup, "x", "seleccione una fecha",
     "todas las citas est[E1]n ocupadas"}

RECURSIVE SourcesOfLen(_)
SourcesOfLen(n) ==
    IF n = 0 THEN {<<>>}
    ELSE {Append(src, t) : src \in SourcesOfLen(n - 1), t \in ClassifierTokens}

ClassifierPages ==
    {Page(<<>>, src, el) :
        src \in UNION {SourcesOfLen(n) : n \in 0..MaxTextLen}, el \in ElementLists}

InitClassifier ==
    /\ variant \in {"http", "playwright", "selenium"}
    /\ transport = NoTransport
    /\ call = IdleCall
    /\ chk = IdleChk
    /\ cyc = IdleCyc
    /\ sent = <<>>
    /\ cls \in [pc : {"drawn"}, page : ClassifierPages, outcome : {NoValue},
                 loaded : {TRUE}]
    /\ bot = NewBot
    /\ main = IdleMain
    /\ tg = IdleTg

\* check_appointment_availability of the browser variants on the page
ClassifyBrowser ==
    /\ variant \in {"playwright", "selenium"} /\ cls.pc = "drawn"
    /\ \E loaded \in BOOLEAN, env \in ExtractionEnvs(cls.page) :
          cls' = [cls EXCEPT !.pc = "classified", !.loaded = loaded,
                             !.outcome = Some(check_appointment_availability(
                                                 variant, cls.page, loaded, env))]
    /\ UNCHANGED <<variant, transport, call, chk, cyc, sent, bot, main, tg>>

\* asylum_bot_requests.py 195-251 on the page, reached at the URL of the
\* service selection
ClassifyHttpPage ==
    /\ variant = "http" /\ cls.pc = "drawn"
    /\ LET info == ClassifyHttp(cls.page, bot.provinces[3], ServiceSelectionUrl)
       IN  cls' = [cls EXCEPT !.pc = "classified",
                              !.outcome = Some(Verdict(info # NoValue, info))]
    /\ UNCHANGED <<variant, transport, call, chk, cyc, sent, bot, main, tg>>

NextClassifier ==
    \/ ClassifyBrowser
    \/ ClassifyHttpPage

SpecClassifier == InitClassifier /\ [][NextClassifier]_vars

(***************************************************************************)
(* Properties of _make_request_with_retry                                  *)
(***************************************************************************)
IsServerError(o) == o.error = None /\ o.status >= 500
IsClientError(o) == o.error = None /\ o.status >= 400 /\ o.status < 500
IsTimeoutOrConnection(o) == o.error \in {"ClientConnectorError", "ServerTimeoutError"}
IsClassifiedTransient(o) == IsServerError(o) \/ IsTimeoutOrConnection(o)

\* the wait before attempt n, from the sleeps the activation made
WaitBefore(c, n) == IF n = 1 THEN 0 ELSE c.sleeps[n - 1]
\* 0, 2, 4, 6, 6, ...
ScheduledWait(n) == IF n = 1 THEN 0 ELSE IF n = 2 THEN 2 ELSE IF n = 3 THEN 4 ELSE 6

\* every request is preceded by one wait, the first by none
OneWaitPerRetry(c) ==
    Len(c.sleeps) = IF c.outcomes = <<>> THEN 0 ELSE Len(c.outcomes) - 1

C2_ClientErrorAbortsAtOnce ==
    /\ \A i \in 1..Len(call.outcomes) :
          IsClientError(call.outcomes[i]) =>
             /\ i = Len(call.outcomes)
             /\ call.pc = "returned"
             /\ call.result = NoValue
             /\ ~call.raised
             /\ Len(call.sleeps) = i - 1
    /\ \A k \in 1..Len(chk.answers) :
          LET a == chk.answers[k]
          IN  (a.last # NoValue /\ IsClientError(a.last[1])) =>
                 /\ ~a.ok
                 /\ Len(a.sleeps) = a.attempts - 1

C2_Witness ==
    /\ call.pc = "returned" /\ call.max_retries = 4
    /\ Len(call.outcomes) = 2
    /\ IsServerError(call.outcomes[1])
    /\ IsClientError(call.outcomes[2])
    /\ call.sleeps = <<2>>

\* C3 as stated: an attempt that is followed by another one failed by a
\* connection failure, a timeout or a status >= 500.
C3_RetryOnlyAfterClassifiedTransient ==
    \A i \in 1..Len(call.outcomes) :
        i < Len(call.outcomes) => IsClassifiedTransient(call.outcomes[i])

\* C3 (amended): an attempt that is followed by another one failed by a status
\* >= 500 or by an exception of the request (connection failure, timeout or
\* any other); a response with a status below 500 is never followed by a retry.
C3_RetryOnlyAfterServerErrorOrException ==
    \A i \in 1..Len(call.outcomes) :
        i < Len(call.outcomes) =>
            \/ IsServerError(call.outcomes[i])
            \/ call.outcomes[i].error # None

C3_Witness ==
    /\ call.pc = "returned" /\ call.site = "test"
    /\ Len(call.outcomes) = 3
    /\ call.outcomes[1].error = "Exception"
    /\ IsTimeoutOrConnection(call.outcomes[2])
    /\ IsClientError(call.outcomes[3])

\* C4: whatever the outcomes, the call ends with a payload or with None and no
\* exception of the request leaves it; the check that receives None ends as
\* a failed step (it returns None, with no further request) while its cycle
\* goes on.
C4_PayloadOrNoneNeverRaises ==
    /\ ~call.raised
    /\ (call.pc = "loop" /\ call.max_retries >= 1) => call.attempt < call.max_retries
    /\ call.pc = "returned" =>
          \/ call.result = NoValue
          \/ /\ Len(call.result) = 1
             /\ call.result[1].status < 400
             /\ call.result[1].status = call.outcomes[Len(call.outcomes)].status
    /\ \A k \in 1..Len(chk.answers) :
          ~chk.answers[k].ok =>
             /\ k = Len(chk.answers)
             /\ Len(chk.requests) = k
             /\ chk.pc = "returned"
             /\ chk.result = NoValue
             /\ call.pc = "idle"
             /\ cyc.pc = "checking"

C4_Witness ==
    /\ chk.pc = "returned" /\ chk.result = NoValue
    /\ Len(chk.answers) = 2
    /\ ~chk.answers[2].ok
    /\ chk.answers[2].attempts = 3
    /\ chk.answers[2].last # NoValue
    /\ chk.answers[2].last[1].error = "Exception"
    /\ cyc.pc = "checking"

LabelledOptions(page, province) ==
    IF page.forms = <<>> THEN <<>>
    ELSE LET fields == Head(page.forms).fields
             sel == {i \in 1..Len(fields) :
                        fields[i].tag = "select" /\ fields[i].name = "provincia"}
         IN  IF sel = {} THEN <<>>
             ELSE SelectSeq(fields[CHOOSE i \in sel : TRUE].options,
                            LAMBDA o : Strip(o.text) = <<province>>)

Posts(k) == SelectSeq(k.requests, LAMBDA r : r.method = "POST")

\* C6: when the province is the trimmed text of no option of the 'provincia'
\* select, the check returns None without submitting the form and without any
\* request after the GET that brought the page.
C6_UnknownProvinceFailsWithoutSubmission ==
    (chk.initial # NoValue /\ LabelledOptions(chk.initial[1], chk.province) = <<>>) =>
        /\ chk.pc = "returned"
        /\ chk.result = NoValue
        /\ Posts(chk) = <<>>
        /\ Len(chk.requests) = 1 /\ Len(chk.answers) = 1
        /\ call.pc = "idle"
        /\ chk.stages = <<>>

C6_Witness ==
    /\ chk.pc = "returned" /\ chk.province = "Albacete"
    /\ Len(chk.answers) = 1
    /\ chk.initial # NoValue
    /\ chk.initial[1].forms # <<>>
    /\ \E i \in 1..Len(Head(chk.initial[1].forms).fields) :
          Head(chk.initial[1].forms).fields[i] =
              ProvinciaSelect(<<oAlmeria, oAlbaceteNorte>>)
    /\ chk.answers[1].attempts = 2

\* C7: when the GET succeeds (at whatever attempt) with a form whose
\* 'provincia' option labelled with the province has value v, the form is
\* submitted once, with provincia = v, and the check is at PROVINCE_SELECTED
\* exactly when the URL of the answer to the submission holds the
\* service-selection pattern.
C7_SubmitsOptionValueAndReachesProvinceSelected ==
    (chk.initial # NoValue /\ LabelledOptions(chk.initial[1], chk.province) # <<>>) =>
        LET v == Head(LabelledOptions(chk.initial[1], chk.province)).value
        IN  /\ chk.answers[1].ok /\ chk.answers[1].attempts <= default_max_retries
            /\ Len(Posts(chk)) = 1
            /\ chk.requests[2].method = "POST"
            /\ chk.requests[2].data["provincia"] = (IF v = NoAttr THEN "" ELSE v)
            /\ chk.pc = "post" => chk.form_data = chk.requests[2].data
            /\ chk.pc = "returned" =>
                  /\ Len(chk.answers) = 2
                  /\ ("PROVINCE_SELECTED" \in {chk.stages[i] : i \in 1..Len(chk.stages)})
                        <=> /\ chk.answers[2].ok
                            /\ \E i \in 1..Len(chk.answers[2].url) :
                                  chk.answers[2].url[i] = "citar?p=4&locale=es"

C7_Witness ==
    /\ chk.pc = "returned" /\ chk.province = "Albacete"
    /\ Len(chk.answers) = 2 /\ Len(chk.requests) = 2
    /\ chk.answers[1].ok /\ chk.answers[1].attempts = 3
    /\ chk.answers[1].last[1].status = 200
    /\ chk.initial[1].forms # <<>>
    /\ chk.initial[1].forms[1].fields = <<ProvinciaSelect(<<oAlbacetePadded, oAlbacete>>), SubmitField>>
    /\ chk.requests[2].data["provincia"] = "2p"
    /\ chk.stages # <<>> /\ chk.stages[1] = "PROVINCE_SELECTED"

(***************************************************************************)
(* Properties of the sequence of steps                                     *)
(***************************************************************************)
AllStages ==
    <<"PROVINCE_SELECTED", "SERVICE_SELECTED", "ENTRY_FORM_REACHED",
      "USER_DATA_SUBMITTED", "AVAILABILITY_CHECKED">>

\* C10: a check that returns a result has passed PROVINCE_SELECTED,
\* SERVICE_SELECTED, ENTRY_FORM_REACHED, USER_DATA_SUBMITTED and
\* AVAILABILITY_CHECKED, in this order and each once, and the classifier is
\* applied only after USER_DATA_SUBMITTED.
C10_ResultOnlyAfterAllStages ==
    /\ (chk.pc = "returned" /\ chk.result # NoValue) => chk.stages = AllStages
    /\ \A i \in 1..Len(chk.stages) :
          chk.stages[i] = "AVAILABILITY_CHECKED" =>
             (i > 1 /\ chk.stages[i - 1] = "USER_DATA_SUBMITTED")

(***************************************************************************)
(* Properties of the browser pipeline                                      *)
(***************************************************************************)
BookingDone(k) == \E i \in 1..Len(k.log) : k.log[i] \in BookingOps
NotAvailable(k) == k.classifier # NoValue /\ ~k.classifier[1].available
NotifiedProvinces == {sent[i].province : i \in 1..Len(sent)}

\* C9: auto_select_appointment runs only in a check whose classifier said
\* "available"; a check whose classifier said "not available" (details None)
\* does no booking interaction and returns no result, and no notification is
\* sent for its province.
C9_BookingOnlyWhenAvailable ==
    /\ (chk.pc = "booking" \/ BookingDone(chk)) =>
          /\ chk.classifier # NoValue
          /\ chk.classifier[1].available
          /\ chk.classifier[1].info # NoValue
    /\ NotAvailable(chk) =>
          /\ chk.classifier[1].info = NoValue
          /\ chk.pc = "returned"
          /\ chk.result = NoValue
          /\ ~BookingDone(chk)
          /\ chk.province \notin NotifiedProvinces
    /\ \A j \in 1..Len(cyc.outcomes) :
          cyc.outcomes[j] = "not_available" => provinces[j] \notin NotifiedProvinces

\* the first province's page shows a calendar under a "no appointments"
\* phrase, the second province's is booked and notified
C9_Witness ==
    /\ variant \in {"playwright", "selenium"}
    /\ Len(cyc.outcomes) = 2
    /\ cyc.outcomes[1] = "not_available" /\ cyc.outcomes[2] = "result"
    /\ NotifiedProvinces = {provinces[2]}
    /\ cyc.pc = "checking" /\ chk.pc = "returned"
    /\ NotAvailable(chk)
    /\ chk.doc[1].elements # <<>>
    /\ \E k \in 1..Len(no_appointment_indicators) :
          Contains(Lower(chk.doc[1].source), Lower(no_appointment_indicators[k]))

(***************************************************************************)
(* Properties of the classifiers                                           *)
(***************************************************************************)
\* the "no appointments" phrases of the variant
NegativePhrases(v) ==
    IF v = "http" THEN no_appointment_indicators_http ELSE no_appointment_indicators

\* the text of the page holds one of the phrases, in whatever letter case
TextHoldsNegativePhrase(v, page) ==
    \E k \in 1..Len(NegativePhrases(v)) :
        Contains(Lower(get_text(page.source)), Lower(NegativePhrases(v)[k]))

\* C8: in every variant of the classifier, a page whose text contains one of
\* the "no appointments" phrases, in any letter case, is classified "not
\* available" with no details, whatever calendar markup, date inputs or
\* positive phrases it also contains.
C8_NegativePhraseMeansNotAvailable ==
    (cls.pc = "classified" /\ TextHoldsNegativePhrase(variant, cls.page)) =>
        /\ ~cls.outcome[1].available
        /\ cls.outcome[1].info = NoValue

(***************************************************************************)
(* Properties of check_province_appointments and run_single_check          *)
(***************************************************************************)
\* the stages passed when the step is entered
StagesBefore(step) ==
    CASE step = "service" -> SubSeq(AllStages, 1, 1)
      [] step = "entry" -> SubSeq(AllStages, 1, 2)
      [] step = "userdata" -> SubSeq(AllStages, 1, 3)
      [] OTHER -> <<>>

\* C11: as soon as a step of check_province_appointments fails, the check is
\* over: it has returned with no result, having passed only the stages before
\* that step and having done nothing of a later step (no classification, no
\* booking); nothing more is done in it until the cycle takes the (absent)
\* result, and the cycle records no result and sends no notification for it.
\* A check adds at most one result to the cycle.
C11_StepFailureAborts ==
    [][ /\ chk'.failed # None =>
              /\ chk'.pc = "returned"
              /\ chk'.result = NoValue
              /\ chk'.stages = StagesBefore(chk'.failed)
              /\ chk'.doc = NoValue /\ chk'.classifier = NoValue
              /\ ~BookingDone(chk')
        /\ chk.failed # None =>
              \/ chk' = chk
              \/ /\ chk' = IdleChk
                 /\ cyc'.found_appointments = cyc.found_appointments
                 /\ cyc'.pc = "pause"
                 /\ sent' = sent
        /\ Len(cyc'.found_appointments) <= Len(cyc.found_appointments) + 1
        /\ Len(cyc'.found_appointments) = Len(cyc.found_appointments) + 1 =>
              (chk.pc = "returned" /\ chk.result # NoValue /\ chk' = IdleChk)
      ]_vars

\* the second province's check failed at the service step after the first
\* province gave a result
C11_Witness ==
    /\ variant \in {"playwright", "selenium"}
    /\ chk.pc = "returned" /\ chk.failed = "service"
    /\ chk.stages = <<"PROVINCE_SELECTED">>
    /\ chk.result = NoValue
    /\ cyc.i = 2 /\ cyc.outcomes = <<"result">>

\* C12: every transport call of the pipeline is retried: a check is not
\* aborted by a failure of an interaction that would have succeeded when
\* repeated.
C12_TransientFailureDoesNotAbort ==
    chk.failed # None => ~chk.transient

\* C13: a province whose check gives none (aborted at a step, or raised)
\* does not stop the cycle: while the loop runs every province before the
\* current one has exactly one outcome, a cycle that went through the loop
\* ends with one outcome for each configured province, and run_single_check
\* never ends by raising.
C13_ProvinceFailureDoesNotStopCycle ==
    /\ cyc.pc \in {"loop", "checking"} => Len(cyc.outcomes) = cyc.i - 1
    /\ cyc.pc \in {"notify", "pause"} => Len(cyc.outcomes) = cyc.i
    /\ cyc.pc \in {"idle", "loop", "checking", "notify", "pause"}
    /\ (cyc.pc = "idle" /\ cyc.i > 0) =>
          /\ Len(cyc.outcomes) = Len(provinces)
          /\ cyc.i = Len(provinces) + 1
          /\ cyc.ended \in {"returned", "caught"}
    /\ cyc.ended # "raised"
    /\ \A j \in 1..Len(cyc.outcomes) :
          cyc.outcomes[j] \in {"result", "not_available", "timeout", "none"}

\* the second province's check failed at the service step and the cycle went
\* on to a result for the third province
C13_Witness ==
    /\ variant \in {"playwright", "selenium"}
    /\ cyc.pc = "idle" /\ cyc.ended = "returned"
    /\ cyc.outcomes = <<"result", "none", "result">>
    /\ Len(cyc.found_appointments) = 2
    /\ {sent[i].province : i \in 1..Len(sent)} = {provinces[1], provinces[3]}

\* the number of results among the outcomes of the cycle
RECURSIVE Results(_)
Results(outcomes) ==
    IF outcomes = <<>> THEN 0
    ELSE Results(Tail(outcomes)) + (IF Head(outcomes) = "result" THEN 1 ELSE 0)

\* C14: the provinces are checked one after another in the configured order:
\* a check is running only while the cycle waits for it, and it is the check
\* of province i after provinces 1..i-1 have each had their outcome, their
\* notification (one for each result, in order) and their 2-second pause; the
\* pause follows every check whatever its outcome.
C14_ProvincesOneAfterAnother ==
    /\ chk.pc # "idle" =>
          /\ cyc.pc = "checking"
          /\ cyc.i \in 1..Len(provinces)
          /\ chk.province = provinces[cyc.i]
    /\ cyc.pc \in {"loop", "checking"} =>
          /\ Len(cyc.outcomes) = cyc.i - 1
          /\ cyc.paused = cyc.i - 1
          /\ Len(sent) = Results(cyc.outcomes)
    /\ cyc.pc = "notify" =>
          /\ cyc.outcomes[cyc.i] = "result"
          /\ cyc.paused = cyc.i - 1
          /\ Len(sent) = Results(cyc.outcomes) - 1
    /\ cyc.pc = "pause" =>
          /\ Len(cyc.outcomes) = cyc.i
          /\ cyc.paused = cyc.i - 1
          /\ Len(sent) = Results(cyc.outcomes)
    /\ (cyc.pc = "idle" /\ cyc.i > 0) => cyc.paused = Len(provinces)
    /\ \A n \in 1..Len(sent) :
          \E j \in 1..Len(cyc.outcomes) :
             /\ sent[n].province = provinces[j]
             /\ cyc.outcomes[j] = "result"
             /\ Results(SubSeq(cyc.outcomes, 1, j)) = n

\* the third province is being checked after a result (notified) for the
\* first and none for the second, each followed by its pause
C14_Witness ==
    /\ variant \in {"playwright", "selenium"}
    /\ cyc.pc = "checking" /\ cyc.i = 3 /\ chk.pc = "service"
    /\ cyc.outcomes = <<"result", "none">>
    /\ cyc.paused = 2
    /\ Len(sent) = 1 /\ sent[1].province = provinces[1]

\* C15: the page (Playwright) or driver (Selenium) of a province check is
\* discarded when the check ends: once check_province_appointments has
\* returned, the page it created is closed, or self.driver is None, and no
\* driver is held between checks, whether the check ended by success, by a
\* step failure or by an exception.
C15_ContextDiscardedAfterCheck ==
    /\ chk.pc = "returned" =>
          /\ variant = "playwright" => chk.ctx \in {"none", "closed"}
          /\ variant = "selenium" => transport.driver = "none"
    /\ chk.pc = "idle" => transport.driver = "none"

\* C16: nothing written during the check of one province is read by the
\* check of another: the cookies that the requests of a check carry were
\* received in this check, never in the check of another province.
C16_NoStateCrossesProvinces ==
    chk.pc # "idle" => chk.cookies \in {None, chk.province}

\* the fields of an AppointmentResult
ResultFields == {"province", "timestamp", "dates", "office", "booking_attempted"}
IsCompleteResult(info, province) ==
    /\ ResultFields \subseteq DOMAIN info
    /\ info["province"] = province
    /\ info["booking_attempted"] \in BOOLEAN

\* C17: every result a province check returns, and every result handed to
\* the notifier, carries province (the province checked), timestamp, dates,
\* office and a boolean booking_attempted.
C17_ResultIsComplete ==
    /\ (chk.pc = "returned" /\ chk.result # NoValue) =>
          IsCompleteResult(chk.result[1], chk.province)
    /\ \A n \in 1..Len(sent) : IsCompleteResult(sent[n].info, sent[n].province)

\* the values of the date radios of the document, in document order, those
\* without a value or with an empty one left out
RECURSIVE DatesInOrder(_)
DatesInOrder(elements) ==
    IF elements = <<>> THEN <<>>
    ELSE (IF /\ Head(elements).tag = "input" /\ Head(elements).type = "radio"
             /\ Head(elements).name = "fecha"
             /\ Head(elements).value \notin {NoAttr, ""}
          THEN <<Head(elements).value>> ELSE <<>>)
         \o DatesInOrder(Tail(elements))

\* C18: when the page (loaded, and read without an extraction failure) has
\* no negative phrase and has date radios, the browser classifiers return
\* available with dates = the non-empty values of the radios in document
\* order, none reordered, dropped or merged.
C18_DatesInDocumentOrder ==
    ( /\ cls.pc = "classified" /\ variant \in {"playwright", "selenium"}
      /\ cls.loaded
      /\ ~TextHoldsNegativePhrase(variant, cls.page)
      /\ DateRadios(cls.page) # <<>>
      /\ cls.outcome[1].extraction.dates_fail = 0 ) =>
        /\ cls.outcome[1].available
        /\ cls.outcome[1].info # NoValue
        /\ cls.outcome[1].info[1].dates = DatesInOrder(cls.page.elements)

\* radios valued 05-02, "", 05-01, 05-02 give the dates 05-02, 05-01, 05-02
C18_Witness ==
    /\ cls.pc = "classified" /\ variant = "playwright" /\ cls.loaded
    /\ Len(DateRadios(cls.page)) = 4
    /\ cls.page.source = <<"citas disponibles", "x">>
    /\ cls.outcome[1].available
    /\ cls.outcome[1].extraction = NoExtractionFailure
    /\ cls.outcome[1].info[1].dates = <<"2024-05-02", "2024-05-01", "2024-05-02">>

\* C19: a result says booking_attempted = True only when the first date
\* input, the continue button, the email and phone fields and the final
\* submit button were all found and used in the check; and a check whose
\* classifier said "available" returns a result carrying the outcome of
\* auto_select_appointment, whatever that outcome is.
C19_BookingAttemptedOnlyWhenAllUsed ==
    (chk.pc = "returned" /\ chk.result # NoValue) =>
        /\ chk.result[1].booking_attempted \in BOOLEAN
        /\ chk.result[1].booking_attempted =>
              BookingOps \subseteq {chk.log[i] : i \in 1..Len(chk.log)}

\* the extraction of the check's classifier met a failure
ExtractionFailed(k) ==
    k.classifier # NoValue /\ k.classifier[1].extraction # NoExtractionFailure

\* the availability step, and the check, go on after an extraction failure
ExtractionFailureDoesNotAbort(k) ==
    /\ k.classifier[1].available
    /\ k.classifier[1].info # NoValue
    /\ k.classifier[1].extraction.office_fail => k.classifier[1].info[1].office = ""
    /\ k.pc \in {"booking", "returned"}
    /\ (k.pc = "returned" /\ k.ctx # "close_raised") =>
          /\ k.result # NoValue
          /\ k.result[1].dates = k.classifier[1].info[1].dates
          /\ k.result[1].office = k.classifier[1].info[1].office

\* C20 as stated: after a failure in the extraction of dates or office the
\* classifier still says available, with dates empty or office empty for the
\* detail that failed, and the check yields a result.
C20_ExtractionFailureGivesEmptyDetail ==
    ExtractionFailed(chk) =>
        /\ ExtractionFailureDoesNotAbort(chk)
        /\ chk.classifier[1].extraction.dates_fail # 0 =>
              chk.classifier[1].info[1].dates = <<>>

\* C20, amended: after a failure in the extraction of dates or office the
\* classifier still says available and the check yields a result; office is
\* empty when the office lookup failed, and dates holds the values read
\* before the failure: none when the query for the radios failed, those of
\* the radios before the one whose value could not be read otherwise.
C20_ExtractionFailureKeepsAvailability ==
    ExtractionFailed(chk) =>
        /\ ExtractionFailureDoesNotAbort(chk)
        /\ LET at == chk.classifier[1].extraction.dates_fail
               radios == DateRadios(chk.doc[1])
           IN  /\ at = 1 => chk.classifier[1].info[1].dates = <<>>
               /\ at > 1 => chk.classifier[1].info[1].dates =
                               DatesInOrder(SubSeq(radios, 1, at - 2))

\* Selenium: the value of the second radio could not be read; the result has
\* the first date and the office
C20_Witness ==
    /\ variant = "selenium"
    /\ chk.pc = "returned" /\ chk.result # NoValue
    /\ ExtractionFailed(chk)
    /\ chk.classifier[1].extraction.dates_fail = 3
    /\ chk.result[1].dates = <<"2024-05-01">>
    /\ chk.result[1].office = "Oficina 1"

(***************************************************************************)
(* Properties of the notifications                                         *)
(***************************************************************************)
\* the positions in cyc.outcomes of the checks that returned a result
ResultPositions == {j \in 1..Len(cyc.outcomes) : cyc.outcomes[j] = "result"}

\* C21: the notifier is called exactly once for each province check that
\* returned a result (the call for the last one is pending while the cycle is
\* at the call) and never for a check that returned none; a delivery that
\* failed is not repeated, leaves the recorded result as it was, and the
\* cycle goes on to the pause and the following provinces: a cycle that
\* returned has checked every province.
C21_NotifiedOncePerResult ==
    /\ Len(cyc.found_appointments) = Cardinality(ResultPositions)
    /\ Len(sent) = Len(cyc.found_appointments) - (IF cyc.pc = "notify" THEN 1 ELSE 0)
    /\ \A n \in 1..Len(sent) :
          /\ sent[n].info = cyc.found_appointments[n]
          /\ sent[n].province = cyc.found_appointments[n].province
          /\ \E j \in ResultPositions : bot.provinces[j] = sent[n].province
          /\ \A m \in 1..Len(sent) : sent[m].province = sent[n].province => m = n
    /\ (Len(sent) > 0 /\ ~sent[Len(sent)].delivered) =>
          /\ cyc.pc \in {"pause", "loop", "checking", "notify", "idle"}
          /\ cyc.ended # CycleExcept
    /\ (cyc.pc = "idle" /\ cyc.ended = "returned") =>
          Len(cyc.outcomes) = Len(bot.provinces)

\* the delivery for the first province failed, the second province was checked
\* and gave a result of its own, and the third is being checked
C21_Witness ==
    /\ Len(sent) = 2 /\ ~sent[1].delivered
    /\ sent[1].province = bot.provinces[1] /\ sent[2].province = bot.provinces[2]
    /\ cyc.found_appointments[1] = sent[1].info
    /\ cyc.pc = "checking" /\ cyc.i = 3

(***************************************************************************)
(* Properties of the monitoring loop                                       *)
(***************************************************************************)
\* the province was notified in the cycle before this one
NotifiedBefore(province) ==
    \E j \in 1..Len(main.previous) : main.previous[j] = province

\* C22: nothing of a cycle is carried to the next.  In every cycle the loop
\* begins at the first province, each province check begins with the GET of
\* the base URL, and a check that returned a result is notified whether or
\* not the province was notified in the cycle before.
C22_CyclesAreStateless ==
    /\ chk.pc # "idle" =>
          /\ chk.requests # <<>>
          /\ chk.requests[1] = Request("GET", base_url, EmptyMap)
          /\ chk.province = bot.provinces[Len(cyc.outcomes) + 1]
    /\ cyc.pc \in {"loop", "pause", "notify"} =>
          Len(cyc.outcomes) = (IF cyc.pc = "loop" THEN cyc.i - 1 ELSE cyc.i)
    /\ \A j \in 1..Len(cyc.outcomes) :
          (cyc.outcomes[j] = "result" /\ ~(cyc.pc = "notify" /\ j = cyc.i)) =>
              \E n \in 1..Len(sent) : sent[n].province = bot.provinces[j]

\* the second cycle has notified a province that the first cycle notified,
\* after a check that began at the base URL
C22_Witness ==
    /\ main.cycle_count = 2 /\ main.pc = "cycle"
    /\ Len(sent) = 1 /\ NotifiedBefore(sent[1].province)
    /\ cyc.pc = "pause"
    /\ cyc.outcomes[Len(cyc.outcomes)] = "result"

(***************************************************************************)
(* Properties of the bot object                                            *)
(***************************************************************************)
\* required_fields (test_complete_system.py 81)
required_fields ==
    {"passport_number", "full_name", "birth_year", "nationality", "email", "phone"}

\* C23: the user profile is read-only.  A bot that has been constructed holds
\* a non-empty value for each of passport_number, full_name, birth_year,
\* nationality, email and phone, and in every later state (after form fills,
\* bookings, province checks and cycles) user_data is what the constructor
\* stored.
C23_UserDataIsReadOnly ==
    bot.built =>
        /\ \A f \in required_fields :
              f \in DOMAIN bot.user_data /\ bot.user_data[f] # ""
        /\ bot.user_data = NewBot.user_data

\* a check has filled the entry form and filled the contact fields of the
\* booking form, and a cycle has ended before it
C23_Witness ==
    /\ bot.built
    /\ chk.pc = "returned" /\ chk.result # NoValue
    /\ \E i \in 1..Len(chk.log) : chk.log[i] = "fill txtIdCitado"
    /\ \E i \in 1..Len(chk.log) : chk.log[i] = "fill phone"
    /\ cyc.i = 3 /\ Len(sent) > 0

\* C26: the submission is built from the first form of the page: every named
\* hidden field is in it with its prefilled value, no submit-type field is in
\* it, an action that is a root-relative path is posted to on the portal
\* origin, and without an action (or with an empty one) the post goes to the
\* base URL.
C26_FormExtraction ==
    \A r \in 1..Len(chk.requests) :
        chk.requests[r].method = "POST" =>
            LET form == Head(chk.initial[1].forms)
                data == chk.requests[r].data
                url == chk.requests[r].url
            IN  /\ \A i \in 1..Len(form.fields) :
                      LET t == form.fields[i]
                      IN  /\ (t.type = "hidden" /\ t.name \notin {NoAttr, ""}) =>
                                /\ t.name \in DOMAIN data
                                /\ data[t.name] = AttrOr(t.value, "")
                          /\ t.type = "submit" => t.name \notin DOMAIN data
                          /\ (t.tag = "select" /\ t.name = "provincia") =>
                                \E k \in 1..Len(t.options) :
                                    data["provincia"] = AttrOr(t.options[k].value, "")
                /\ \A n \in DOMAIN data :
                      \E i \in 1..Len(form.fields) : form.fields[i].name = n
                /\ (form.action \notin {NoAction, <<>>} /\ Head(form.action) = "/") =>
                      url = <<Origin>> \o form.action
                /\ form.action \in {NoAction, <<>>} => url = base_url

\* the province form had a hidden field and a submit button and a
\* root-relative action, and was posted
C26_Witness ==
    /\ chk.pc = "post" /\ Len(chk.requests) = 2
    /\ Head(chk.initial[1].forms).fields[1] = HiddenField
    /\ chk.requests[2].data["sede"] = "99"
    /\ DOMAIN chk.requests[2].data = {"sede", "provincia"}
    /\ chk.requests[2].url = <<Origin, "/", "icpplus/citar">>

\* the URL holds the pattern of the service selection page
LandsOnServiceSelection(url) == Contains(url, <<"citar?p=4&locale=es">>)

\* C28: the province step is passed only when the URL of the response to the
\* submission holds 'citar?p=4&locale=es'.  A submission answered from any
\* other URL ends the check at once with no result: the stage is not
\* reached, and no request follows the one that was answered.
C28_ProvinceStepNeedsServiceSelectionUrl ==
    /\ (\E n \in 1..Len(chk.stages) : chk.stages[n] = "PROVINCE_SELECTED") =>
          /\ Len(chk.answers) = 2 /\ chk.answers[2].ok
          /\ LandsOnServiceSelection(chk.answers[2].url)
    /\ (Len(chk.answers) = 2 /\ chk.answers[2].ok
           /\ ~LandsOnServiceSelection(chk.answers[2].url)) =>
          /\ chk.pc = "returned" /\ chk.result = NoValue
          /\ chk.stages = <<>>
          /\ Len(chk.requests) = 2 /\ call = IdleCall
          /\ chk.answers[2].attempts \in 1..default_max_retries
          /\ chk.answers[2].last[1].error = None /\ chk.answers[2].last[1].status < 400

\* the submission was answered with status 200 from the URL of the English
\* locale, at the first attempt, and the check has returned
C28_Witness ==
    /\ chk.pc = "returned" /\ Len(chk.answers) = 2
    /\ chk.answers[2].ok /\ chk.answers[2].attempts = 1
    /\ chk.answers[2].url = <<Origin, "/", "icpplus/", "citar?p=4&locale=en">>
    /\ chk.result = NoValue

\* the interactions of the service-type step: those from the first wait for
\* the radio buttons on, up to the click on Entrar of the next step
ServiceTypeLog(k) ==
    LET from == {p \in 1..Len(k.log) : k.log[p] = "wait radio"}
        upto == {p \in 1..Len(k.log) : k.log[p] = "click Entrar"}
    IN  IF from = {} THEN <<>>
        ELSE SubSeq(k.log,
                    CHOOSE p \in from : \A q \in from : p <= q,
                    IF upto = {} THEN Len(k.log)
                    ELSE (CHOOSE p \in upto : \A q \in upto : p <= q) - 1)

\* the submits of a list of interactions, as positions
Submits(ops) == {p \in 1..Len(ops) : ops[p] = "click Aceptar"}

\* C29: the service-type step never submits a choice page without having
\* selected the option that carries the marker: its first submit comes right
\* after the selection of a POLICIA option and its second right after the
\* selection of an ASILO option; when no option carries the marker there is
\* no submit and the step fails.
C29_SubmitOnlyAfterMarkedOption ==
    LET ops == ServiceTypeLog(chk)
    IN  \A p \in Submits(ops) :
            /\ p > 1
            /\ IF \A q \in Submits(ops) : p <= q
               THEN ops[p - 1] \in {"check POLICIA", "click POLICIA"}
               ELSE ops[p - 1] \in {"check ASILO", "click ASILO"}

\* the lower-cased text of the page holds one of the positive phrases
TextHoldsPositivePhrase(page) ==
    \E phrase \in {<<"citas disponibles">>, <<"citas libres">>,
                    <<"seleccione una fecha">>, <<"calendario">>,
                    <<"fecha disponible">>} :
        Contains(Lower(get_text(page.source)), phrase)

\* C30: the HTTP-only classifier decides in three cases, in order: a negative
\* phrase in the page text gives no result; otherwise a positive phrase gives
\* a result; otherwise no result.  Calendar tables and date inputs never
\* decide: without a positive phrase they give no result, and in a result
\* they only set the flags calendar_found and date_selection_available.
C30_HttpClassifierThreeCases ==
    (variant = "http" /\ cls.pc = "classified") =>
        LET negative == TextHoldsNegativePhrase("http", cls.page)
            positive == TextHoldsPositivePhrase(cls.page)
            verdict == cls.outcome[1]
        IN  /\ verdict.available <=> (~negative /\ positive)
            /\ ~verdict.available => verdict.info = NoValue
            /\ verdict.available =>
                  LET info == verdict.info[1]
                  IN  /\ DOMAIN info \ {"calendar_found", "date_selection_available"}
                            = {"province", "timestamp", "page_url", "found_via", "status"}
                      /\ info.status = "appointments_detected"
                      /\ "calendar_found" \in DOMAIN info <=> calendar_tables(cls.page) # {}
                      /\ "date_selection_available" \in DOMAIN info
                            <=> date_inputs(cls.page) # {}

\* a page with a calendar table and date inputs, without a negative and
\* without a positive phrase, was given no result
C30_Witness ==
    /\ variant = "http" /\ cls.pc = "classified"
    /\ calendar_tables(cls.page) # {} \/ date_inputs(cls.page) # {}
    /\ cls.page.source # <<>>
    /\ ~TextHoldsNegativePhrase("http", cls.page)
    /\ ~TextHoldsPositivePhrase(cls.page)
    /\ ~cls.outcome[1].available

\* C24: the monitored-province list of the HTTP bot is, after construction
\* and in every later state, exactly the sequence 'Almer[ED]a', 'C[E1]diz',
\* 'Albacete' (test_complete_system.py 93): nothing adds, removes, renames or
\* reorders a province.
C24_ProvinceListIsFixed ==
    (variant = "http" /\ bot.built) =>
        bot.provinces = <<"Almer[ED]a", "C[E1]diz", "Albacete">>

\* C25: when TELEGRAM_BOT_TOKEN or TELEGRAM_CHAT_ID is not set or is empty,
\* main raises at startup: no bot is constructed, no monitoring cycle starts,
\* and neither a portal request nor a notification is made.
C25_MissingCredentialsStopAtStartup ==
    (main.pc # "none"
        /\ (main.TELEGRAM_BOT_TOKEN \in {None, ""} \/ main.TELEGRAM_CHAT_ID \in {None, ""})) =>
        /\ main.pc \in {"start", "raised"}
        /\ ~bot.built /\ bot.session = None
        /\ main.cycle_count = 0 /\ cyc = IdleCyc
        /\ chk = IdleChk /\ call = IdleCall
        /\ sent = <<>> /\ main.notices = <<>>

\* main has raised for a token that is set but empty, the chat id being there
C25_Witness ==
    /\ main.pc = "raised"
    /\ main.TELEGRAM_BOT_TOKEN = "" /\ main.TELEGRAM_CHAT_ID \notin {None, ""}

\* C27: right after the HTTP bot is constructed, before any request has been
\* made through it, bot.session is a session on which a request can be
\* issued.
C27_SessionUsableAfterConstruction ==
    (variant = "http" /\ bot.built) => bot.session = "open"

(***************************************************************************)
(* Properties of the requests of one HTTP province check                   *)
(***************************************************************************)
\* the attempts of the finished requests of the check and of the one in
\* progress
RECURSIVE SumAttempts(_)
SumAttempts(answers) ==
    IF answers = <<>> THEN 0 ELSE Head(answers).attempts + SumAttempts(Tail(answers))
AttemptsOfCheck ==
    SumAttempts(chk.answers)
        + (IF call.site \in {"GET", "POST"} THEN Len(call.outcomes) ELSE 0)

\* C38: a province check of the HTTP variant issues at most two logical
\* requests, the GET of the base URL and then the POST of the province form;
\* the POST is issued only after the GET gave a payload, the page held a form
\* and the province was resolved to an option of its 'provincia' select; the
\* attempts of the check are at most 2 * max_retries.
C38_GetThenPostAtMostTwice ==
    variant = "http" =>
        /\ Len(chk.requests) <= 2
        /\ Len(chk.answers) <= Len(chk.requests)
        /\ Len(chk.requests) >= 1 =>
              /\ chk.requests[1].method = "GET"
              /\ chk.requests[1].url = base_url
        /\ Len(chk.requests) = 2 =>
              /\ chk.requests[2].method = "POST"
              /\ Len(chk.answers) >= 1 /\ chk.answers[1].ok
              /\ chk.answers[1].last[1].error = None
              /\ chk.answers[1].last[1].status < 400
              /\ chk.initial # NoValue
              /\ chk.initial[1].forms # <<>>
              /\ LabelledOptions(chk.initial[1], chk.province) # <<>>
        /\ \A i \in 1..Len(chk.answers) : chk.answers[i].attempts <= default_max_retries
        /\ AttemptsOfCheck <= 2 * default_max_retries

\* a check that used every attempt of both requests
C38_Witness ==
    /\ variant = "http" /\ chk.pc = "returned"
    /\ Len(chk.requests) = 2 /\ Len(chk.answers) = 2
    /\ chk.answers[1].ok /\ chk.answers[1].attempts = default_max_retries
    /\ ~chk.answers[2].ok /\ chk.answers[2].attempts = default_max_retries
    /\ AttemptsOfCheck = 2 * default_max_retries


(***************************************************************************)
(* Properties of the end of _make_request_with_retry                       *)
(***************************************************************************)
\* a response arrived and its status is below 400
StatusBelow400(o) == o.status > 0 /\ o.status < 400

\* C36 as stated: the call stops at the first response whose status is below
\* 400 and returns its payload.
C36_StopsAtFirstStatusBelow400 ==
    \A i \in 1..Len(call.outcomes) :
        StatusBelow400(call.outcomes[i]) =>
            /\ i = Len(call.outcomes)
            /\ call.pc = "returned"
            /\ call.result # NoValue

\* C36 (amended): the call stops at the first response below 400 whose body
\* was read: it returns (content, final URL, status) with no further request
\* and no wait; a response below 400 whose body cannot be read is a failed
\* attempt like any exception, retried while attempts remain; the number of
\* requests is the index of the first response that was read or had a 4xx
\* status, and never more than max_retries.
C36_StopsAtFirstResponseRead ==
    /\ Len(call.outcomes) <= call.max_retries
    /\ \A i \in 1..Len(call.outcomes) :
          LET o == call.outcomes[i]
          IN  /\ Succeeds(o) =>
                    /\ i = Len(call.outcomes)
                    /\ call.pc = "returned"
                    /\ call.result # NoValue
                    /\ DOMAIN call.result[1] = {"content", "url", "status"}
                    /\ call.result[1].status = o.status
                    /\ Len(call.sleeps) = i - 1
              /\ IsClientError(o) =>
                    /\ i = Len(call.outcomes)
                    /\ call.pc = "returned"
                    /\ call.result = NoValue
                    /\ Len(call.sleeps) = i - 1
              /\ (o \in ReadFailures /\ i = Len(call.outcomes)) =>
                    /\ call.result = NoValue
                    /\ (call.pc = "loop") <=> (i < call.max_retries)
              /\ i < Len(call.outcomes) => ~Succeeds(o) /\ ~IsClientError(o)
    /\ call.result # NoValue =>
          /\ call.pc = "returned"
          /\ Succeeds(call.outcomes[Len(call.outcomes)])

\* a response with status 200 whose body could not be read, and then one that
\* was read
C36_Witness ==
    /\ call.pc = "returned" /\ call.site = "test"
    /\ Len(call.outcomes) = 2
    /\ call.outcomes[1] \in ReadFailures
    /\ Succeeds(call.outcomes[2])
    /\ call.result # NoValue
    /\ call.sleeps = <<2>>
    /\ call.max_retries = MaxRetries


(***************************************************************************)
(* Termination of _make_request_with_retry.  The session is built with     *)
(* ClientTimeout(total=60, connect=30) (line 57), so every request returns *)
(* a response or raises within a minute, and asyncio.sleep(delay) returns: *)
(* an iteration of the loop that has begun is completed.                   *)
(***************************************************************************)
NextRetry ==
    \/ DirectCall
    \/ RetryAgain
    \/ DirectAnswered
    \/ RetryLoopEnd
    \/ DirectReturn

SpecRetry ==
    Init /\ [][NextRetry]_vars /\ WF_vars(RetryAgain \/ DirectAnswered \/ RetryLoopEnd)

RECURSIVE SumSeq(_)
SumSeq(s) == IF s = <<>> THEN 0 ELSE Head(s) + SumSeq(Tail(s))

\* the sum of min(2^k, 6) for k = 1 .. max_retries - 1
RECURSIVE BackoffBudget(_)
BackoffBudget(max_retries) ==
    IF max_retries <= 1 THEN 0
    ELSE Min(2 ^ (max_retries - 1), 6) + BackoffBudget(max_retries - 1)

RetryBounds ==
    /\ Len(call.outcomes) <= call.max_retries
    /\ SumSeq(call.sleeps) <= BackoffBudget(call.max_retries)
    /\ call.max_retries = 0 =>
          /\ call.outcomes = <<>> /\ call.sleeps = <<>>
          /\ call.result = NoValue

\* C37: a call of _make_request_with_retry always terminates: it makes at
\* most max_retries requests and waits at most the sum of min(2^k, 6) for
\* k = 1 .. max_retries - 1 seconds in all; with max_retries = 0 it makes no
\* request and returns None.
C37_RetryTerminates ==
    /\ []RetryBounds
    /\ (call.pc = "loop") ~> (call.pc = "returned" /\ ~call.raised)

\* a call that used every attempt and every wait
C37_Witness ==
    /\ call.pc = "returned" /\ call.site = "test"
    /\ call.max_retries = MaxRetries
    /\ Len(call.outcomes) = MaxRetries
    /\ SumSeq(call.sleeps) = BackoffBudget(MaxRetries)
    /\ call.result = NoValue


(***************************************************************************)
(* Properties of the session of the HTTP bot                               *)
(***************************************************************************)
\* C31: _get_session returns the session the bot has when it is open and
\* makes a new one exactly when there is none or it is closed; after
\* _close_session the session is closed, and closing no session or a closed
\* one changes nothing; at most one session is open at any time; a request
\* made after a close runs on a fresh session.
C31_OneSessionReusedUntilClosed ==
    /\ [](variant = "http" =>
            /\ bot.live \in {0, 1}
            /\ (bot.live = 1) <=> (bot.session = "open")
            /\ call.pc = "loop" => bot.session = "open")
    /\ [][/\ (bot.session = "open" /\ bot'.session = "open") => bot'.live = bot.live
          /\ (bot.session # "open" /\ bot'.session = "open") =>
                 (bot'.live = bot.live + 1 /\ bot.live = 0)
          /\ DirectGetSession => bot'.session = "open"
          /\ DirectCloseSession =>
                 /\ bot'.session # "open" /\ bot'.live = 0
                 /\ bot.session # "open" => bot' = bot
          /\ (call.pc # "loop" /\ call'.pc = "loop") => bot'.session = "open"
         ]_vars

\* the session that the requests of a cycle ran on has been closed
C31_Witness ==
    /\ variant = "http" /\ bot.session = "closed" /\ bot.live = 0
    /\ call.pc = "idle" /\ cyc.pc = "idle" /\ cyc.ended # "no"


(***************************************************************************)
(* Properties of consecutive_failures                                      *)
(***************************************************************************)
\* run_single_check of the HTTP bot has ended
CycleOver == variant = "http" /\ cyc.pc = "idle" /\ cyc.ended \in {"returned", "caught"}

\* C32: consecutive_failures is 0 after a cycle with at least one result, one
\* more than before after a cycle in which every province failed to access
\* the initial page, and 0 after a cycle without result in which some
\* province reached the portal.
C32_CountsAllFailedCycles ==
    CycleOver =>
        IF cyc.found_appointments # <<>> THEN bot.consecutive_failures = 0
        ELSE IF cyc.initial_failed = Len(bot.provinces)
        THEN bot.consecutive_failures = cyc.failures_before + 1
        ELSE bot.consecutive_failures = 0


(***************************************************************************)
(* Properties of the status updates of run_continuous_monitoring           *)
(***************************************************************************)
\* the cycles whose checks and status update, if due, are over
CyclesDone ==
    IF main.pc = "cycle" THEN main.cycle_count - 1 ELSE main.cycle_count

\* C34: the startup status update is sent once, before the first cycle; an
\* 'active' status update is sent after cycle k, once, exactly when k is a
\* positive multiple of 12: after the checks of that cycle and before the
\* wait that follows it.
C34_StatusUpdates ==
    /\ main.pc \in {"none", "start", "raised", "monitoring"} =>
          main.notices = <<>> /\ main.cycle_count = 0
    /\ main.pc \in {"loop", "cycle", "wait"} =>
          /\ main.notices # <<>>
          /\ main.notices[1] = [kind |-> "startup", cycle |-> 0, waits |-> 0]
          /\ \A j \in 2..Len(main.notices) :
                /\ main.notices[j].kind = "active"
                /\ main.notices[j].cycle = status_update_period * (j - 1)
                /\ main.notices[j].waits = main.notices[j].cycle - 1
          /\ Len(main.notices) = 1 + (CyclesDone \div status_update_period)
          /\ main.waits = IF main.pc = "loop" THEN main.cycle_count
                          ELSE main.cycle_count - 1

\* the update of the twelfth cycle has been sent and the wait after that
\* cycle has not begun
C34_Witness ==
    /\ main.pc = "wait" /\ main.cycle_count = status_update_period
    /\ cyc.pc = "idle" /\ Len(cyc.outcomes) = Len(bot.provinces)
    /\ main.waits = status_update_period - 1
    /\ Len(main.notices) = 2
    /\ main.notices[2].kind = "active"
    /\ main.notices[2].cycle = status_update_period


(***************************************************************************)
(* Properties of the end of run_continuous_monitoring                      *)
(***************************************************************************)
\* C39: however run_continuous_monitoring is left, the transport is released
\* before it returns: the aiohttp session is closed (HTTP), the context and
\* the browser are closed (Playwright), the driver is quit and self.driver
\* is None (Selenium).
C39_TransportReleasedOnExit ==
    main.pc = "stopped" =>
        /\ variant = "http" => (bot.session # "open" /\ bot.live = 0)
        /\ variant = "playwright" => (~transport.context /\ ~transport.browser)
        /\ variant = "selenium" => transport.driver = "none"


(***************************************************************************)
(* Properties of the monitoring loop                                       *)
(***************************************************************************)
\* an exception was raised inside run_single_check and logged by it as
\* 'Error in check cycle'
ErrorInCycle == cyc.ended = CycleExcept

MonitoringKeepsGoing ==
    /\ main.pc \in {"loop", "cycle", "wait", "stopped"}
          => main.TELEGRAM_BOT_TOKEN \notin {None, ""}
    /\ main.pc # "recover"
    /\ main.slept \in {0, 300}
    /\ (main.pc = "loop" /\ main.waits > 0) => main.slept = 300
    /\ main.pc = "wait" =>
          /\ cyc.pc = "idle" /\ cyc.ended \in {"returned", CycleExcept}
          /\ Len(cyc.outcomes) = Len(bot.provinces)
          /\ cyc.paused = Len(bot.provinces)

InitNotifier ==
    /\ variant = "http"
    /\ transport = NoTransport
    /\ call = IdleCall
    /\ chk = IdleChk
    /\ cyc = IdleCyc
    /\ sent = <<>>
    /\ cls = [pc |-> "idle"]
    /\ bot = NewBot
    /\ main = IdleMain
    /\ tg = IdleTg

NextNotifier ==
    \/ SendMessage
    \/ SendAppointmentNotification
    \/ SendErrorNotification
    \/ SendStatusUpdate
    \/ NotifierDone

SpecNotifier == InitNotifier /\ [][NextNotifier]_vars

ApiAnswered200 ==
    tg.api # NoValue /\ tg.api[1].error = None /\ tg.api[1].status = 200

\* C35 as stated: no send operation raises; each returns True exactly when
\* the API answered with status 200, and False on any error, an error while
\* the message is formatted included.
C35_FalseOnAnyError ==
    tg.pc = "returned" =>
        /\ ~tg.raised
        /\ tg.result \in {<<TRUE>>, <<FALSE>>}
        /\ (tg.result = <<TRUE>>) <=> ApiAnswered200
        /\ tg.formatting_error => tg.result = <<FALSE>>

\* C35 (amended): no send operation raises; each returns True exactly when
\* the API answered the message it posted with status 200 and False
\* otherwise.  An error while the text is built makes send_error_notification
\* and send_status_update return False without a request; in
\* send_appointment_notification an error inside format_appointment_message
\* is replaced by the short fallback text, which is posted and whose answer
\* decides the value.
C35_TrueExactlyOn200 ==
    tg.pc = "returned" =>
        /\ ~tg.raised
        /\ tg.result \in {<<TRUE>>, <<FALSE>>}
        /\ (tg.result = <<TRUE>>) <=> ApiAnswered200
        /\ (tg.posted = NoValue) <=> (tg.api = NoValue)
        /\ (tg.formatting_error /\ ~tg.fallback) =>
              (tg.posted = NoValue /\ tg.result = <<FALSE>>)
        /\ tg.fallback =>
              /\ tg.op = "send_appointment_notification"
              /\ tg.posted # NoValue
              /\ Len(tg.posted[1]) = 2 /\ tg.posted[1][1] = "Appointment found in"
        /\ tg.op \in {"send_error_notification", "send_status_update", "send_message"}
              => (tg.formatting_error <=> tg.posted = NoValue)

\* the dates could not be formatted, the fallback text was posted and the API
\* answered 200
C35_Witness ==
    /\ tg.pc = "returned" /\ tg.op = "send_appointment_notification"
    /\ tg.formatting_error /\ tg.fallback
    /\ ApiAnswered200
    /\ tg.result = <<TRUE>>

====
